---- MODULE Spec2Model ----
(***************************************************************************)
(* Model of the collection / dedupe / ranking pipeline of                  *)
(* battery-news-agent (src/src/*.py).                                      *)
(*                                                                         *)
(* Text is modelled as a sequence of one-character strings, so that the    *)
(* substring tests, the lower-casing and difflib's SequenceMatcher can be  *)
(* computed the way the Python code computes them.  Ratios are kept as     *)
(* exact fractions <<numerator, denominator>> and thresholds as percents.  *)
(***************************************************************************)
EXTENDS Integers, Sequences, FiniteSets, TLC

\* ------------------------------------------------------------------------
\* Bounds of the model
\* ------------------------------------------------------------------------
MaxItems == 4

\* ------------------------------------------------------------------------
\* Generic helpers
\* ------------------------------------------------------------------------
MinOf(S) == CHOOSE x \in S : \A y \in S : x <= y

MaxOf(S) == CHOOSE x \in S : \A y \in S : x >= y

Range(s) == {s[i] : i \in 1..Len(s)}

\* all sequences over S of length 0..n
SeqsUpTo(S, n) == UNION {[1..k -> S] : k \in 0..n}

\* the sequences over S of length up to n in which no element comes twice
DistinctSeqsUpTo(S, n) ==
    {s \in SeqsUpTo(S, n) : \A i, j \in 1..Len(s) : s[i] = s[j] => i = j}

\* ------------------------------------------------------------------------
\* Characters: str.lower() on the alphabet the model's texts use
\* ------------------------------------------------------------------------
UpperLetters ==
    <<"A", "B", "C", "D", "E", "F", "G", "H", "I", "J", "K", "L", "M",
      "N", "O", "P", "Q", "R", "S", "T", "U", "V", "W", "X", "Y", "Z">>

LowerLetters ==
    <<"a", "b", "c", "d", "e", "f", "g", "h", "i", "j", "k", "l", "m",
      "n", "o", "p", "q", "r", "s", "t", "u", "v", "w", "x", "y", "z">>

Digits == {"0", "1", "2", "3", "4", "5", "6", "7", "8", "9"}

LowerChar(c) ==
    IF \E i \in 1..26 : UpperLetters[i] = c
    THEN LowerLetters[CHOOSE i \in 1..26 : UpperLetters[i] = c]
    ELSE c

Lower(s) == [i \in 1..Len(s) |-> LowerChar(s[i])]

IsSpace(c) == c = " "

\* Hangul syllables are written as tokens "k_<romanisation>": one token is
\* one character of the Python string (lower() leaves it unchanged).  These
\* are the syllables of the keyword lists and of the model's titles.
Hangul ==
    {"k_a_n", "k_ba_l", "k_beu_l", "k_bi", "k_bo", "k_bu_n",
     "k_byeo_ng", "k_chae_g", "k_che", "k_cheo_l", "k_cheo_m", "k_chu_l",
     "k_deo", "k_eo_b", "k_eo_g", "k_eu_m", "k_ga", "k_ga_n", "k_gae",
     "k_geo_n", "k_geu_b", "k_geu_g", "k_geu_m", "k_gi", "k_go", "k_go_ng",
     "k_gu", "k_gwa_n", "k_gye", "k_gyu", "k_ha_b", "k_hae", "k_heu_g",
     "k_hwa", "k_hwa_l", "k_hyeo_b", "k_i", "k_i_g", "k_i_n", "k_ja",
     "k_ja_ng", "k_jae", "k_je", "k_jeo_g", "k_jeo_n", "k_jeo_ng", "k_jeu_ng",
     "k_ji_l", "k_jo", "k_ju", "k_kae", "k_kae_l", "k_ko", "k_ko_l", "k_ko_n",
     "k_ma_g", "k_ma_ng", "k_mae", "k_na", "k_neo", "k_pa", "k_rae_g", "k_ri",
     "k_ri_b", "k_ri_n", "k_ryeo_g", "k_ryu_m", "k_sa", "k_sa_n", "k_sae_ng",
     "k_se", "k_seo_l", "k_seu", "k_si", "k_si_b", "k_si_g", "k_si_l", "k_su",
     "k_ta", "k_teu", "k_ti_ng", "k_tu", "k_wo_n", "k_ya_g", "k_ya_ng",
     "k_yeo_m", "k_yeo_n", "k_yeo_ng", "k_yo_ng"}

\* [0-9a-z ga-hih] of the character class in _normalize_title_for_similarity
IsWordChar(c) == c \in Range(LowerLetters) \cup Digits \cup Hangul

\* ------------------------------------------------------------------------
\* Headlines of the model's news items
\* ------------------------------------------------------------------------
\* "lg <invest> <expand>": two high keywords
TInvest == <<"l", "g", " ", "k_tu", "k_ja", " ", "k_jeu_ng", "k_seo_l">>

\* the same headline in another spelling: equal after normalisation
TInvestBang == <<"L", "G", " ", "k_tu", "k_ja", " ", "k_jeu_ng", "k_seo_l", "!">>

\* a near headline (one syllable differs): one high keyword
TInvestAlt == <<"l", "g", " ", "k_tu", "k_ja", " ", "k_jeu_ng", "k_sa_n">>

\* a headline that SequenceMatcher scores 16/18 against TInvest when TInvest
\* is the first argument and 14/18 when it is the second
TInvestSwap == <<"l", "g", " ", "k_tu", "k_ja", " ", "k_seo_l", "k_jeu_ng", "k_ja", "k_seo_l">>

\* "sk <launch>": one mid keyword
TLaunch == <<"s", "k", " ", "k_chu_l", "k_si">>

\* "lg ira": one high keyword
TPolicy == <<"l", "g", " ", "i", "r", "a">>

\* no keyword
TPlain == <<"a", "b">>

NewsTitles == {TInvest, TInvestBang, TInvestAlt, TInvestSwap, TLaunch, TPolicy, TPlain}

\* ------------------------------------------------------------------------
\* difflib.SequenceMatcher(None, a, b).ratio(), no junk (texts are far
\* shorter than the 200 elements at which autojunk starts)
\* ------------------------------------------------------------------------
\* length of the common run a[i..], b[j..] (0-based starts, within ahi/bhi)
CommonRun(a, b, i, j, ahi, bhi) ==
    LET lim == IF ahi - i < bhi - j THEN ahi - i ELSE bhi - j
    IN  MaxOf({k \in 0..lim : \A d \in 0..(k - 1) : a[i + d + 1] = b[j + d + 1]})

\* find_longest_match: the longest block; of those the one starting earliest
\* in a, and of those the one starting earliest in b; <<alo, blo, 0>> if none
find_longest_match(a, b, alo, ahi, blo, bhi) ==
    LET starts == (alo..(ahi - 1)) \X (blo..(bhi - 1))
        best   == IF starts = {} THEN 0
                  ELSE MaxOf({CommonRun(a, b, p[1], p[2], ahi, bhi) : p \in starts})
        hits   == {p \in starts : CommonRun(a, b, p[1], p[2], ahi, bhi) = best}
        bi     == MinOf({p[1] : p \in hits})
        bj     == MinOf({p[2] : p \in {q \in hits : q[1] = bi}})
    IN  IF best = 0 THEN <<alo, blo, 0>> ELSE <<bi, bj, best>>

RECURSIVE MatchTotal(_, _, _, _, _, _)
\* get_matching_blocks, given the longest match m of the window: its size
\* and the sizes of the blocks to its left and to its right
MatchAround(a, b, alo, ahi, blo, bhi, m) ==
    IF m[3] = 0 THEN 0
    ELSE m[3]
         + (IF alo < m[1] /\ blo < m[2]
            THEN MatchTotal(a, b, alo, m[1], blo, m[2]) ELSE 0)
         + (IF m[1] + m[3] < ahi /\ m[2] + m[3] < bhi
            THEN MatchTotal(a, b, m[1] + m[3], ahi, m[2] + m[3], bhi) ELSE 0)

\* get_matching_blocks: sum of the sizes of the blocks found by recursing to
\* the left and to the right of the longest match
MatchTotal(a, b, alo, ahi, blo, bhi) ==
    MatchAround(a, b, alo, ahi, blo, bhi, find_longest_match(a, b, alo, ahi, blo, bhi))

\* ratio() = 2.0 * matches / length, and 1.0 when both sequences are empty
RatioOf(a, b) ==
    IF Len(a) + Len(b) = 0 THEN <<1, 1>>
    ELSE <<2 * MatchTotal(a, b, 0, Len(a), 0, Len(b)), Len(a) + Len(b)>>

\* the texts the model's inputs compare, for which the ratio is tabulated
\* once (the table holds RatioOf's values; it only saves recomputation)
KnownTexts ==
    {<<>>, <<"a", "a", "a">>, <<"a", "b", "a">>, <<"a", "b">>, <<"b", "a">>,
     <<"b", "c", "a">>, <<"a", "b", "!">>, <<"!">>}
    \cup {Lower(t) : t \in NewsTitles}

RatioTable == [p \in KnownTexts \X KnownTexts |-> RatioOf(p[1], p[2])]

SequenceMatcherRatio(a, b) ==
    IF a \in KnownTexts /\ b \in KnownTexts THEN RatioTable[<<a, b>>] ELSE RatioOf(a, b)

\* ratio >= pct / 100
RatioGE(r, pct) == 100 * r[1] >= pct * r[2]

\* ------------------------------------------------------------------------
\* Text helpers
\* ------------------------------------------------------------------------
StartsWith(s, p) == Len(s) >= Len(p) /\ SubSeq(s, 1, Len(p)) = p

\* Python's `k in t` for strings
IsSubstring(k, t) ==
    \E i \in 0..(Len(t) - Len(k)) : SubSeq(t, i + 1, i + Len(k)) = k

RECURSIVE SqueezeFrom(_, _)
\* re.sub(r"\s+", " ", s).strip(): one space between words, none at the ends
SqueezeFrom(s, i) ==
    IF i > Len(s) THEN <<>>
    ELSE IF IsSpace(s[i])
         THEN IF i > 1 /\ ~IsSpace(s[i - 1])
                 /\ (\E j \in (i + 1)..Len(s) : ~IsSpace(s[j]))
              THEN <<" ">> \o SqueezeFrom(s, i + 1)
              ELSE SqueezeFrom(s, i + 1)
         ELSE <<s[i]>> \o SqueezeFrom(s, i + 1)

Squeeze(s) == SqueezeFrom(s, 1)

\* _strip_html: the model's texts hold no "<", ">" or "&", so the tag and
\* entity substitutions leave them unchanged; the whitespace squeeze remains
_strip_html(s) == Squeeze(s)

\* _normalize_title_for_similarity: strip html, lower-case, (marker words and
\* bracketed annotations: none in the model's texts), every character outside
\* [0-9a-z ga-hih \s] becomes a space, whitespace squeezed
NormalizeOf(title) ==
    LET t == Lower(_strip_html(title))
        u == [i \in 1..Len(t) |-> IF IsWordChar(t[i]) \/ IsSpace(t[i]) THEN t[i] ELSE " "]
    IN  Squeeze(u)

\* the titles of the model's inputs, normalised once (NormalizeOf's values)
KnownTitles ==
    {<<"a", "a", "a">>, <<"a", "b", "a">>, <<"a", "b">>, <<"b", "a">>,
     <<"b", "c", "a">>, <<"A", "B", "!">>, <<"!">>} \cup NewsTitles

NormalizeTable == [t \in KnownTitles |-> NormalizeOf(t)]

_normalize_title_for_similarity(title) ==
    IF title \in KnownTitles THEN NormalizeTable[title] ELSE NormalizeOf(title)

\* naver_collector._title_similarity
\* lines 93-95: the ratio of two normalised titles, 0.0 if either is empty
\* the ratios of the normalised headlines of the model, computed once
NormalizedTexts == {NormalizeTable[t] : t \in NewsTitles}

NormalizedRatioTable == [p \in NormalizedTexts \X NormalizedTexts |-> RatioOf(p[1], p[2])]

_normalized_similarity(na, nb) ==
    IF na = <<>> \/ nb = <<>> THEN <<0, 1>>
    ELSE IF na \in NormalizedTexts /\ nb \in NormalizedTexts THEN NormalizedRatioTable[<<na, nb>>]
    ELSE SequenceMatcherRatio(na, nb)

_title_similarity(a, b) ==
    _normalized_similarity(_normalize_title_for_similarity(a),
                           _normalize_title_for_similarity(b))

\* dedupe.title_similarity
title_similarity(a, b) == SequenceMatcherRatio(Lower(a), Lower(b))

\* ------------------------------------------------------------------------
\* utils.normalize_url.  A url is [base, query]: everything but the query
\* string, and the keys of the query's pairs in order, as they are written in
\* the url (the values go the same way as the keys and decide nothing).  An
\* escape "%XX" is one element of a key.
\* ------------------------------------------------------------------------
NoUrl == [base |-> "", query |-> <<>>]

Url(b, q) == [base |-> b, query |-> q]

\* parse_qsl: "+" is a space and "%XX" the character it stands for
UnquoteChar(c) ==
    CASE c = "+" -> " "
      [] c = "%20" -> " "
      [] c = "%2B" -> "+"
      [] c = "%25" -> "%"
      [] c = "%75" -> "u"
      [] OTHER -> c

unquote_plus(k) == [i \in 1..Len(k) |-> UnquoteChar(k[i])]

\* urlencode (quote_plus): letters, digits and "_" stay, a space is "+"
QuoteChar(c) ==
    CASE c = " " -> "+"
      [] c = "+" -> "%2B"
      [] c = "%" -> "%25"
      [] OTHER -> c

quote_plus(k) == [i \in 1..Len(k) |-> QuoteChar(k[i])]

\* parse_qsl(p.query, keep_blank_values=True): the decoded keys
parse_qsl(query) == [i \in 1..Len(query) |-> unquote_plus(query[i])]

\* urlencode(q, doseq=True)
urlencode(q) == [i \in 1..Len(q) |-> quote_plus(q[i])]

TrackingKeys ==
    {<<"f", "b", "c", "l", "i", "d">>, <<"g", "c", "l", "i", "d">>,
     <<"m", "c", "_", "c", "i", "d">>, <<"m", "c", "_", "e", "i", "d">>}

\* the filter of line 28-30, as a broken mutant: the utm_ prefix is not tested
IsTrackingKeyNoPrefix(k) == Lower(k) \in TrackingKeys

\* lines 29-30
IsTrackingKey(k) ==
    \/ StartsWith(Lower(k), <<"u", "t", "m", "_">>)
    \/ Lower(k) \in TrackingKeys

\* urlparse raises ValueError on a host that opens a bracket and never closes it
UrlparseRaises(url) == url.base = "[u1"

\* lines 24-34: parse, filter, encode again; the url as it came when parsing
\* raises
normalize_url(url) ==
    IF url = NoUrl THEN url
    ELSE IF UrlparseRaises(url) THEN url
    ELSE [url EXCEPT !.query = urlencode(SelectSeq(parse_qsl(@), LAMBDA k : ~IsTrackingKey(k)))]

\* ------------------------------------------------------------------------
\* Pairwise-similarity dedupe: dedupe.dedupe_items and
\* naver_collector.dedupe_by_title_similarity.
\* The loop state is [kept, keptIdx, merges]: the kept list, the input
\* position of each kept item, and the pairs <<i, k>> "input i was found a
\* duplicate of the kept input k" (the place where the code sets its flag
\* and breaks).
\* ------------------------------------------------------------------------
SetField(r, f, v) == (f :> v) @@ r

\* `if not merged:` / `if not is_dup:` with the flag set by a broken mutant
NotMergedAlways(hits) == TRUE

\* `if not merged:` / `if not is_dup:`
NotMerged(hits) == hits = {}

\* the comparison of the inner loop, as a broken mutant: strictly greater
IsDupStrict(ratio, threshold) == 100 * ratio[1] > threshold * ratio[2]

\* the comparison of the inner loop, as a broken mutant: reversed
IsDupReversed(ratio, threshold) == 100 * ratio[1] <= threshold * ratio[2]

\* `title_similarity(...) >= sim_threshold` / `_title_similarity(...) >= threshold`
IsDup(ratio, threshold) == RatioGE(ratio, threshold)

EmptyDedupe == [kept |-> <<>>, keptIdx |-> <<>>, merges |-> {}]

\* lines 28-29: the kept items the title of `it` is similar to
dedupe_items_hits(st, it, sim_threshold) ==
    {j \in 1..Len(st.kept) :
        IsDup(title_similarity(it.title, st.kept[j].title), sim_threshold)}

\* lines 29-37 without the test `it["link"] != k["link"]` of line 31
dedupe_items_merge_own_link(st, i, it, hits) ==
    LET j    == MinOf(hits)
        k    == st.kept[j]
        add  == /\ it.link # NoUrl
                /\ Len(k.related_links) < 2
                /\ it.link \notin Range(k.related_links)
        st1  == IF hits = {} THEN st
                ELSE [st EXCEPT !.kept[j].related_links = IF add THEN Append(@, it.link) ELSE @,
                                !.merges = @ \cup {<<i, st.keptIdx[j]>>}]
    IN  IF NotMerged(hits)
        THEN [st1 EXCEPT !.kept = Append(@, it), !.keptIdx = Append(@, i)]
        ELSE st1

\* lines 29-37: merge into the first of them, or keep
dedupe_items_merge(st, i, it, hits) ==
    LET j    == MinOf(hits)
        k    == st.kept[j]
        add  == /\ it.link # NoUrl
                /\ it.link # k.link
                /\ Len(k.related_links) < 2
                /\ it.link \notin Range(k.related_links)
        st1  == IF hits = {} THEN st
                ELSE [st EXCEPT !.kept[j].related_links = IF add THEN Append(@, it.link) ELSE @,
                                !.merges = @ \cup {<<i, st.keptIdx[j]>>}]
    IN  IF NotMerged(hits)
        THEN [st1 EXCEPT !.kept = Append(@, it), !.keptIdx = Append(@, i)]
        ELSE st1

\* dedupe_items, lines 26-37: one pass of `for it in items`
dedupe_items_step(st, i, it, sim_threshold) ==
    dedupe_items_merge(st, i, it, dedupe_items_hits(st, it, sim_threshold))

RECURSIVE dedupe_items_loop(_, _, _, _)
dedupe_items_loop(st, items, i, sim_threshold) ==
    IF i > Len(items) THEN st
    ELSE dedupe_items_loop(dedupe_items_step(st, i, items[i], sim_threshold),
                           items, i + 1, sim_threshold)

\* dedupe_items, lines 18-22: every input gets its link normalised and an
\* empty related_links
dedupe_items_prepare(raw) ==
    [i \in 1..Len(raw) |->
        SetField(SetField(raw[i], "link", normalize_url(raw[i].link)), "related_links", <<>>)]

dedupe_items(raw, sim_threshold) ==
    dedupe_items_loop(EmptyDedupe, dedupe_items_prepare(raw), 1, sim_threshold)

\* lines 329-332: the kept items the title of `it` is similar to
dedupe_by_title_similarity_hits(st, it, threshold) ==
    {j \in 1..Len(st.kept) :
        IsDup(_title_similarity(it.title, st.kept[j].title), threshold)}

\* lines 333-334: keep unless a duplicate
dedupe_by_title_similarity_keep(st, i, it, hits) ==
    LET st1  == IF hits = {} THEN st
                ELSE [st EXCEPT !.merges = @ \cup {<<i, st.keptIdx[MinOf(hits)]>>}]
    IN  IF NotMerged(hits)
        THEN [st1 EXCEPT !.kept = Append(@, it), !.keptIdx = Append(@, i)]
        ELSE st1

\* dedupe_by_title_similarity, lines 327-334: one pass of `for it in items`
dedupe_by_title_similarity_step(st, i, it, threshold) ==
    dedupe_by_title_similarity_keep(st, i, it,
                                    dedupe_by_title_similarity_hits(st, it, threshold))

RECURSIVE dedupe_by_title_similarity_loop(_, _, _, _)
dedupe_by_title_similarity_loop(st, items, i, threshold) ==
    IF i > Len(items) THEN st
    ELSE dedupe_by_title_similarity_loop(
             dedupe_by_title_similarity_step(st, i, items[i], threshold),
             items, i + 1, threshold)

dedupe_by_title_similarity(items, threshold) ==
    dedupe_by_title_similarity_loop(EmptyDedupe, items, 1, threshold)

\* ------------------------------------------------------------------------
\* Python list helpers
\* ------------------------------------------------------------------------
\* s[:k] as a broken mutant: one element too many
PrefixOneMore(s, k) == SubSeq(s, 1, IF k + 1 < Len(s) THEN k + 1 ELSE Len(s))

\* s[:k]
Prefix(s, k) ==
    IF k >= 0 THEN SubSeq(s, 1, IF k < Len(s) THEN k ELSE Len(s))
    ELSE SubSeq(s, 1, IF Len(s) + k > 0 THEN Len(s) + k ELSE 0)

\* tuple comparison a < b (equal lengths)
LexLess(a, b) ==
    \E i \in 1..Len(a) : a[i] < b[i] /\ \A j \in 1..(i - 1) : a[j] = b[j]

\* list.sort: stable; Before(x, y) is "x's key orders strictly before y's"
StableSort(s, Before(_, _)) ==
    LET pos(i) == 1 + Cardinality({j \in 1..Len(s) :
                                     \/ Before(s[j], s[i])
                                     \/ ~Before(s[i], s[j]) /\ j < i})
    IN  [p \in 1..Len(s) |-> s[CHOOSE i \in 1..Len(s) : pos(i) = p]]

\* dict.get(i, default)
Get(d, i, default) == IF i \in DOMAIN d THEN d[i] ELSE default

\* the retry loops, as a broken mutant: a failed attempt is always retried
MayRetryAlways(attempt, retries) == TRUE

\* `for attempt in range(retries + 1)` with `if attempt < retries` in the
\* handler: a failed attempt is followed by another one
MayRetry(attempt, retries) == attempt < retries

\* ------------------------------------------------------------------------
\* naver_collector.heuristic_importance_scores
\* ------------------------------------------------------------------------
HighKeywords ==
    << <<"k_tu", "k_ja">>,
       <<"k_jo", "k_wo_n">>,
       <<"k_eo_g", "k_wo_n">>,
       <<"k_su", "k_ju">>,
       <<"k_go_ng", "k_geu_b">>,
       <<"k_gye", "k_ya_g">>,
       <<"k_hyeo_b", "k_ya_g">>,
       <<"m", "o", "u">>,
       <<"d", "e", "a", "l">>,
       <<"a", "g", "r", "e", "e", "m", "e", "n", "t">>,
       <<"k_jeu_ng", "k_seo_l">>,
       <<"k_go_ng", "k_ja_ng">>,
       <<"k_ya_ng", "k_sa_n">>,
       <<"k_sae_ng", "k_sa_n">>,
       <<"k_kae", "k_pa">>,
       <<"c", "a", "p", "a", "c", "i", "t", "y">>,
       <<"p", "l", "a", "n", "t">>,
       <<"g", "i", "g", "a", "f", "a", "c", "t", "o", "r", "y">>,
       <<"k_gyu", "k_je">>,
       <<"k_gwa_n", "k_se">>,
       <<"k_bo", "k_jo", "k_geu_m">>,
       <<"k_jeo_ng", "k_chae_g">>,
       <<"i", "r", "a">>,
       <<"e", "u">>,
       <<"b", "a", "t", "t", "e", "r", "y", " ", "r", "e", "g", "u", "l", "a", "t", "i", "o", "n">>,
       <<"k_ri", "k_ko_l">>,
       <<"k_hwa", "k_jae">>,
       <<"k_sa", "k_go">>,
       <<"k_a_n", "k_jeo_n">>,
       <<"k_jeo_n", "k_go", "k_che">>,
       <<"k_na", "k_teu", "k_ryu_m">>,
       <<"s", "o", "l", "i", "d", "-", "s", "t", "a", "t", "e">>,
       <<"s", "o", "d", "i", "u", "m", "-", "i", "o", "n">>,
       <<"b", "r", "e", "a", "k", "t", "h", "r", "o", "u", "g", "h">>,
       <<"k_si_l", "k_jeo_g">>,
       <<"k_mae", "k_chu_l">>,
       <<"k_yeo_ng", "k_eo_b", "k_i", "k_i_g">>,
       <<"e", "a", "r", "n", "i", "n", "g", "s">>,
       <<"p", "r", "o", "f", "i", "t">>,
       <<"m", "&", "a">>,
       <<"k_i_n", "k_su">>,
       <<"k_ha_b", "k_byeo_ng">> >>

MidKeywords ==
    << <<"k_chu_l", "k_si">>,
       <<"k_gae", "k_ba_l">>,
       <<"k_yeo_n", "k_gu">>,
       <<"k_hyeo_b", "k_ryeo_g">>,
       <<"k_pa", "k_teu", "k_neo">>,
       <<"k_pa", "k_teu", "k_neo", "k_si_b">>,
       <<"p", "i", "l", "o", "t">>,
       <<"p", "r", "o", "t", "o", "t", "y", "p", "e">> >>

\* number of keywords of the list that occur in the text
KeywordHits(keys, t) == Cardinality({i \in 1..Len(keys) : IsSubstring(Lower(keys[i]), t)})

\* the score of one title, as a broken mutant: without `min(100, s)`
HeuristicScoreUnclamped(title) ==
    LET t == Lower(title)
    IN  10 + 10 * KeywordHits(HighKeywords, t) + 4 * KeywordHits(MidKeywords, t)

\* the score of one title: 10, +10 per high keyword, +4 per mid keyword,
\* clamped to 100
HeuristicScoreOf(title) ==
    LET t == Lower(title)
        s == 10 + 10 * KeywordHits(HighKeywords, t) + 4 * KeywordHits(MidKeywords, t)
    IN  IF s > 100 THEN 100 ELSE s

\* the heuristic's score of the model's headlines, computed once
HeuristicTable == [t \in NewsTitles |-> HeuristicScoreOf(t)]

\* heuristic_importance_scores for one item (the list version maps it over
\* the items, in order)
heuristic_importance_score(title) ==
    IF title \in NewsTitles THEN HeuristicTable[title] ELSE HeuristicScoreOf(title)

heuristic_importance_scores(items) ==
    [i \in 1..Len(items) |-> heuristic_importance_score(items[i].title)]

\* ------------------------------------------------------------------------
\* run._select_google_by_llm_battery_relevance
\* Candidates are indexed from 0 as in the code: candidate i is candidates[i + 1].
\* ------------------------------------------------------------------------
\* the fixed scores of the fallback path
DefaultRelevance == 60

DefaultImportance == 10

\* default of BATTERY_RELEVANCE_MIN
relevance_min == 55

\* _monitor_score = 0.7 * rel + 0.3 * imp, kept in tenths (7 * rel + 3 * imp);
\* on the scores the model uses the float order and rounding agree with this
\* exact value
_monitor_score(rel, imp) == 7 * rel + 3 * imp

\* int(round(x)) for x given in tenths: round half to even
RoundTenths(v) ==
    LET q == v \div 10
        r == v % 10
    IN  IF r < 5 THEN q
        ELSE IF r > 5 THEN q + 1
        ELSE IF q % 2 = 0 THEN q ELSE q + 1

\* f"item_{i}"
ItemKeys == <<"item_0", "item_1", "item_2", "item_3", "item_4", "item_5", "item_6", "item_7">>

item_key(i) == ItemKeys[i + 1]

WithScores(it, rel, imp) ==
    SetField(SetField(SetField(it, "battery_relevance", rel),
                      "monitoring_importance", imp),
             "monitor_score", RoundTenths(_monitor_score(rel, imp)))

\* lines 122-128, as a broken mutant: the cut leaves one candidate less
select_fallback_short(candidates, top_k) ==
    LET picked == Prefix(candidates, top_k - 1)
    IN  [i \in 1..Len(picked) |->
            WithScores(picked[i], DefaultRelevance, DefaultImportance)]

\* lines 122-128 and 230-237: candidates[:top_k] with the fixed scores
select_fallback(candidates, top_k) ==
    LET picked == Prefix(candidates, top_k)
    IN  [i \in 1..Len(picked) |->
            WithScores(picked[i], DefaultRelevance, DefaultImportance)]

\* lines 179-185: the three dicts filled from the parsed response items
\* (resp: index -> item; an empty or blank event_key becomes item_<index>)
EventKeyOf(x, index) == IF x.event_key = "" THEN item_key(index) ELSE x.event_key

\* lines 188-190: the event key of candidate i
CandidateKey(ek_by_i, i) == Get(ek_by_i, i, item_key(i))

\* key of max(...) at line 194-197 and of the sort at 208-215
MScoreOf(rel_by_i, imp_by_i, j) == _monitor_score(Get(rel_by_i, j, 0), Get(imp_by_i, j, 0))

\* lines 187-198: one representative per event key, in the order in which
\* the keys first occur
event_reps(n, rel_by_i, imp_by_i, ek_by_i) ==
    LET firsts == {i \in 0..(n - 1) :
                     \A j \in 0..(i - 1) : CandidateKey(ek_by_i, j) # CandidateKey(ek_by_i, i)}
        idxs(f) == {j \in 0..(n - 1) : CandidateKey(ek_by_i, j) = CandidateKey(ek_by_i, f)}
        rep(f) == CHOOSE j \in idxs(f) :
                      \A k \in idxs(f) \ {j} :
                          LexLess(<<MScoreOf(rel_by_i, imp_by_i, k), -k>>,
                                  <<MScoreOf(rel_by_i, imp_by_i, j), -j>>)
        order == StableSort([p \in 1..n |-> p - 1], LAMBDA x, y : x < y)
        fs == SelectSeq(order, LAMBDA i : i \in firsts)
    IN  [p \in 1..Len(fs) |-> rep(fs[p])]

\* line 205-206: `[i for i in reps if rel >= relevance_min] or reps`
apply_relevance_min(reps, rel_by_i) ==
    LET passing == SelectSeq(reps, LAMBDA i : Get(rel_by_i, i, 0) >= relevance_min)
    IN  IF passing # <<>> THEN passing ELSE reps

\* lines 208-215: sort by (monitor score, relevance, importance), reverse
sort_reps(reps, rel_by_i, imp_by_i) ==
    StableSort(reps,
               LAMBDA x, y :
                   LexLess(<<MScoreOf(rel_by_i, imp_by_i, y), Get(rel_by_i, y, 0), Get(imp_by_i, y, 0)>>,
                           <<MScoreOf(rel_by_i, imp_by_i, x), Get(rel_by_i, x, 0), Get(imp_by_i, x, 0)>>))

\* lines 217-228
select_by_scores(candidates, top_k, rel_by_i, imp_by_i, ek_by_i) ==
    LET reps == event_reps(Len(candidates), rel_by_i, imp_by_i, ek_by_i)
        ranked == sort_reps(apply_relevance_min(reps, rel_by_i), rel_by_i, imp_by_i)
        picked_idxs == Prefix(ranked, top_k)
    IN  [reps |-> reps,
         picked_idxs |-> picked_idxs,
         picked |-> [p \in 1..Len(picked_idxs) |->
                        WithScores(candidates[picked_idxs[p] + 1],
                                   Get(rel_by_i, picked_idxs[p], 0),
                                   Get(imp_by_i, picked_idxs[p], 0))]]

\* ------------------------------------------------------------------------
\* naver_collector.collect_naver_last24h
\* The search API serves `feed`: the page for (start, display) is
\* feed[start .. start + display - 1].  An API item is [title, pub, origin]:
\* pub tells how pubDate parses ("fresh": within 24h, "old": before the
\* cutoff, "bad": unparsable), origin is originallink-or-link (NoUrl: none).
\* ------------------------------------------------------------------------
\* page size (`display = min(100, ...)`, `start += 100`), scaled down
PageSize == 2

\* number of pages the loop bound allows (`start <= 1000`: 10), scaled down
MaxPages == 2

\* a loop bound that lets one page more through
MaxStartOnePageMore == PageSize * (MaxPages + 1)

MaxStart == PageSize * MaxPages

\* str.strip()
Strip(s) ==
    LET idx == {i \in 1..Len(s) : ~IsSpace(s[i])}
    IN  IF idx = {} THEN <<>> ELSE SubSeq(s, MinOf(idx), MaxOf(idx))

\* _clean_title_tail_publisher: the title without a " - publisher" tail
_clean_title_tail_publisher(title) ==
    LET at == {i \in 1..(Len(title) - 2) : SubSeq(title, i, i + 2) = <<" ", "-", " ">>}
        i == MaxOf(at)
        base == Strip(SubSeq(title, 1, i - 1))
        tail == Strip(SubSeq(title, i + 3, Len(title)))
    IN  IF at = {} THEN Strip(title)
        ELSE IF base # <<>> /\ 2 <= Len(tail) /\ Len(tail) <= 60 THEN base
        ELSE Strip(title)

\* the response to GET ?start=..&display=..
PageOf(feed, start, display) ==
    SubSeq(feed, start, IF start + display - 1 < Len(feed) THEN start + display - 1 ELSE Len(feed))

\* `if pub_dt < cutoff`, as a broken mutant: nothing is older than the cutoff
IsOlderNever(pub) == FALSE

\* line 164: `if pub_dt < cutoff`
IsOlder(pub) == pub = "old"

\* lines 159-192: one pass of `for it in items`; st = [out, seen_links,
\* reached_older, full]; full is the `break` at len(out) >= max_fetch
collect_item(st, it, max_fetch) ==
    IF st.full THEN st
    ELSE IF it.pub = "bad" THEN st
    ELSE IF IsOlder(it.pub) THEN [st EXCEPT !.reached_older = TRUE]
    ELSE IF it.origin = NoUrl THEN st
    ELSE IF it.origin \in st.seen_links THEN st
    ELSE LET out1 == Append(st.out,
                            [title |-> _clean_title_tail_publisher(_strip_html(it.title)),
                             link |-> it.origin,
                             pub |-> it.pub,
                             rank |-> Len(st.out)])
         IN  [st EXCEPT !.out = out1,
                        !.seen_links = @ \cup {it.origin},
                        !.full = Len(out1) >= max_fetch]

RECURSIVE collect_items(_, _, _, _)
collect_items(st, items, i, max_fetch) ==
    IF i > Len(items) THEN st
    ELSE collect_items(collect_item(st, items[i], max_fetch), items, i + 1, max_fetch)

\* lines 144-198, one pass of the while loop on the response `items`: the
\* list that is returned, or the next pass
RECURSIVE collect_pages(_, _, _, _)
collect_page(feed, max_fetch, start, st, items) ==
    IF items = <<>> THEN st.out
    ELSE IF st.reached_older THEN st.out
    ELSE collect_pages(feed, max_fetch, start + PageSize,
                       [st EXCEPT !.reached_older = FALSE, !.full = FALSE])

\* lines 144-200: the while loop from `start` on
collect_pages(feed, max_fetch, start, st) ==
    IF ~(start <= MaxStart /\ Len(st.out) < max_fetch) THEN st.out
    ELSE collect_page(feed, max_fetch, start,
                      collect_items(st,
                                    PageOf(feed, start,
                                           IF PageSize < max_fetch - Len(st.out)
                                           THEN PageSize ELSE max_fetch - Len(st.out)),
                                    1, max_fetch),
                      PageOf(feed, start,
                             IF PageSize < max_fetch - Len(st.out)
                             THEN PageSize ELSE max_fetch - Len(st.out)))

\* collect_naver_last24h when every request is answered
collect_naver_last24h(feed, max_fetch) ==
    collect_pages(feed, max_fetch, 1,
                  [out |-> <<>>, seen_links |-> {}, reached_older |-> FALSE, full |-> FALSE])

\* ------------------------------------------------------------------------
\* naver_collector.dedupe_by_llm_semantic, one item
\* ------------------------------------------------------------------------
LLM_DEDUPE_RETRIES == 2

LLM_IMPORTANCE_RETRIES == 2

\* LLM_DEDUPE_FAST_GATE, percent
fast_gate == 70

\* the threshold dedupe_by_llm_semantic passes without a key, percent
NoKeyThreshold == 92

\* LLM_IMPORTANCE_CHUNK (30), scaled down
ChunkSize == 2

\* lines 284-289: sims[0][0], the highest similarity to a kept title, as
\* "is it >= fast_gate"
PassesFastGate(title, kept_titles) ==
    \E j \in 1..Len(kept_titles) :
        RatioGE(_title_similarity(title, kept_titles[j].title), fast_gate)

\* DedupDecision: is_duplicate, and whether duplicate_of_rank is not None
Decisions == [got : {TRUE}, is_duplicate : BOOLEAN, has_rank : BOOLEAN]

\* `decision = None`
NoDecision == [got |-> FALSE, is_duplicate |-> FALSE, has_rank |-> FALSE]

\* line 315 without the test of duplicate_of_rank
DecisionDropsAnyDuplicate(d) == d.is_duplicate

\* line 315: the item is dropped
DecisionDrops(d) == d.is_duplicate /\ d.has_rank

\* ------------------------------------------------------------------------
\* naver_collector.score_importance_by_llm, one chunk
\* ------------------------------------------------------------------------
ImportanceValues == {20, 90}

\* the mappings _llm_score_chunk may return for the chunk idxs: any index
\* possibly missing (entries for other indexes are never read)
ChunkMappings(idxs) ==
    UNION {[dom -> ImportanceValues] : dom \in SUBSET idxs}

\* lines 438-444: fill the chunk's scores from the mapping, the heuristic
\* where an index is missing (scores and items are 0-based: index i is
\* element i + 1)
fill_scores(scores, items, idxs, mapping) ==
    [p \in 1..Len(scores) |->
        IF (p - 1) \in idxs
        THEN IF (p - 1) \in DOMAIN mapping THEN mapping[p - 1]
             ELSE heuristic_importance_score(items[p].title)
        ELSE scores[p]]

\* lines 431-436 writing past the chunk: every item from the heuristic
fill_heuristic_all(scores, items, idxs) ==
    [p \in 1..Len(scores) |-> heuristic_importance_score(items[p].title)]

\* lines 431-436: the whole chunk from the heuristic
fill_heuristic(scores, items, idxs) ==
    [p \in 1..Len(scores) |->
        IF (p - 1) \in idxs THEN heuristic_importance_score(items[p].title) ELSE scores[p]]

\* ------------------------------------------------------------------------
\* collect_naver_top15_last24h_deduped_and_ranked, lines 506-514
\* ------------------------------------------------------------------------
naver_pick(deduped, scores, top_k) ==
    LET idxs == StableSort([p \in 1..Len(deduped) |-> p],
                           LAMBDA x, y : LexLess(<<-scores[x], deduped[x].rank>>,
                                                 <<-scores[y], deduped[y].rank>>))
        picked_idxs == Prefix(idxs, top_k)
    IN  [picked_items |-> [p \in 1..Len(picked_idxs) |-> deduped[picked_idxs[p]]],
         picked_scores |-> [p \in 1..Len(picked_idxs) |-> scores[picked_idxs[p]]]]

\* ------------------------------------------------------------------------
\* tagger.classify_category / tagger.extract_companies / ranker.infer_tier
\* ------------------------------------------------------------------------
CATEGORIES ==
    << [cat |-> <<"c", "a", "t", "h", "o", "d", "e">>,
        keys |-> << <<"c", "a", "t", "h", "o", "d", "e">>, <<"k_ya_ng", "k_geu_g">>,
                    <<"k_ya_ng", "k_geu_g", "k_jae">>, <<"n", "c", "m">>, <<"l", "f", "p">>,
                    <<"l", "c", "o">>, <<"n", "c", "a">>, <<"n", "i", "c", "k", "e", "l">>,
                    <<"k_ma_ng", "k_ga_n">>, <<"k_ko", "k_ba_l", "k_teu">>,
                    <<"k_cheo_l", "k_i_n", "k_sa_n">> >>],
       [cat |-> <<"a", "n", "o", "d", "e">>,
        keys |-> << <<"a", "n", "o", "d", "e">>, <<"k_eu_m", "k_geu_g">>,
                    <<"k_eu_m", "k_geu_g", "k_jae">>, <<"s", "i", "l", "i", "c", "o", "n">>,
                    <<"g", "r", "a", "p", "h", "i", "t", "e">>, <<"k_heu_g", "k_yeo_n">>,
                    <<"k_si_l", "k_ri", "k_ko_n">> >>],
       [cat |-> <<"e", "l", "e", "c", "t", "r", "o", "l", "y", "t", "e">>,
        keys |-> << <<"e", "l", "e", "c", "t", "r", "o", "l", "y", "t", "e">>,
                    <<"k_jeo_n", "k_hae", "k_ji_l">>,
                    <<"l", "i", "q", "u", "i", "d", " ", "e", "l", "e", "c", "t", "r", "o", "l", "y", "t", "e">>, <<"s", "a", "l", "t">>, <<"k_yeo_m">>, <<"a", "d", "d", "i", "t", "i", "v", "e">>, <<"k_cheo_m", "k_ga", "k_je">> >>],
       [cat |-> <<"s", "e", "p", "a", "r", "a", "t", "o", "r">>,
        keys |-> << <<"s", "e", "p", "a", "r", "a", "t", "o", "r">>,
                    <<"k_bu_n", "k_ri", "k_ma_g">>,
                    <<"m", "e", "m", "b", "r", "a", "n", "e">> >>],
       [cat |-> <<"k_jeo_n", "k_go", "k_che">>,
        keys |-> << <<"s", "o", "l", "i", "d", "-", "s", "t", "a", "t", "e">>,
                    <<"a", "l", "l", "-", "s", "o", "l", "i", "d", "-", "s", "t", "a", "t", "e">>, <<"k_jeo_n", "k_go", "k_che">>, <<"k_go", "k_che", "k_jeo_n", "k_hae", "k_ji_l">>, <<"s", "u", "l", "f", "i", "d", "e">>, <<"o", "x", "i", "d", "e">>, <<"p", "o", "l", "y", "m", "e", "r">> >>],
       [cat |-> <<"k_na", "k_teu", "k_ryu_m">>,
        keys |-> << <<"s", "o", "d", "i", "u", "m", "-", "i", "o", "n">>,
                    <<"k_na", "k_teu", "k_ryu_m">>, <<"n", "a", "-", "i", "o", "n">>,
                    <<"n", "a", " ", "i", "o", "n">> >>],
       [cat |-> <<"k_jae", "k_hwa_l", "k_yo_ng">>,
        keys |-> << <<"r", "e", "c", "y", "c", "l", "i", "n", "g">>,
                    <<"r", "e", "c", "y", "c", "l", "e">>, <<"k_jae", "k_hwa_l", "k_yo_ng">>,
                    <<"b", "l", "a", "c", "k", " ", "m", "a", "s", "s">>,
                    <<"k_beu_l", "k_rae_g", "k_mae", "k_seu">>,
                    <<"h", "y", "d", "r", "o", "m", "e", "t", "a", "l", "l", "u", "r", "g", "y">>, <<"p", "y", "r", "o", "m", "e", "t", "a", "l", "l", "u", "r", "g", "y">> >>],
       [cat |-> <<"k_ja_ng", "k_bi">>,
        keys |-> << <<"e", "q", "u", "i", "p", "m", "e", "n", "t">>, <<"k_ja_ng", "k_bi">>,
                    <<"c", "o", "a", "t", "e", "r">>, <<"k_kae_l", "k_ri_n", "k_deo">>,
                    <<"d", "r", "y", " ", "e", "l", "e", "c", "t", "r", "o", "d", "e">>,
                    <<"k_geo_n", "k_si_g">>, <<"f", "o", "r", "m", "a", "t", "i", "o", "n">>,
                    <<"k_jo", "k_ri_b">>, <<"k_ko", "k_ti_ng">> >>],
       [cat |-> <<"k_jeo_ng", "k_chae_g">>,
        keys |-> << <<"p", "o", "l", "i", "c", "y">>,
                    <<"r", "e", "g", "u", "l", "a", "t", "i", "o", "n">>,
                    <<"k_gyu", "k_je">>, <<"s", "u", "b", "s", "i", "d", "y">>,
                    <<"k_bo", "k_jo", "k_geu_m">>, <<"i", "r", "a">>, <<"c", "r", "m", "a">>,
                    <<"c", "b", "a", "m">>, <<"t", "a", "r", "i", "f", "f">>,
                    <<"k_gwa_n", "k_se">> >>] >>

\* the category of a text no keyword matches ("gi-ta", other)
OtherCategory == <<"k_gi", "k_ta">>

\* f"{title} {description}".lower()
TextOf(title, description) == Lower(title \o <<" ">> \o description)

CategoryOf(title, description) ==
    LET text == TextOf(title, description)
        hits == {c \in 1..Len(CATEGORIES) :
                   \E k \in 1..Len(CATEGORIES[c].keys) :
                       IsSubstring(Lower(CATEGORIES[c].keys[k]), text)}
    IN  IF hits = {} THEN OtherCategory ELSE CATEGORIES[MinOf(hits)].cat

\* the categories of the model's headlines (descriptions are empty), once
CategoryTable == [t \in NewsTitles |-> CategoryOf(t, <<>>)]

classify_category(title, description) ==
    IF title \in NewsTitles /\ description = <<>> THEN CategoryTable[title]
    ELSE CategoryOf(title, description)

\* the names listed in config/companies.txt (configuration, not in the
\* repository)
CompaniesTxt == << <<"L", "G">>, <<"S", "K">>, <<"L", "G", " ", "k_tu", "k_ja">> >>

RECURSIVE FindCompanies(_, _, _, _)
\* the loop over the file's lines: found grows until max_n names
FindCompanies(text, i, found, max_n) ==
    IF i > Len(CompaniesTxt) THEN found
    ELSE LET name == CompaniesTxt[i]
             found1 == IF IsSubstring(Lower(name), text) /\ name \notin Range(found)
                       THEN Append(found, name) ELSE found
         IN  IF Len(found1) >= max_n THEN found1
             ELSE FindCompanies(text, i + 1, found1, max_n)

CompaniesTable == [t \in NewsTitles |-> FindCompanies(TextOf(t, <<>>), 1, <<>>, 3)]

extract_companies(title, description, max_n) ==
    IF title \in NewsTitles /\ description = <<>> /\ max_n = 3 THEN CompaniesTable[title]
    ELSE FindCompanies(TextOf(title, description), 1, <<>>, max_n)

\* the `tiers` of config/sources.yaml (configuration): tier and the domains
\* listed for it, in file order; a url's base stands for its domain
TiersConfig ==
    << [tier |-> 1, domains |-> {"u1", "n1"}],
       [tier |-> 2, domains |-> {"u2", "u3"}] >>

infer_tier(link) ==
    LET hits == {i \in 1..Len(TiersConfig) : link.base \in TiersConfig[i].domains}
    IN  IF hits = {} THEN 3 ELSE TiersConfig[MinOf(hits)].tier

\* ------------------------------------------------------------------------
\* collector.collect_from_rss.  A feed entry is [title, link, date]: date
\* tells how published/updated parses ("target": the target date, "other":
\* another date, "bad": unparsable or missing).
\* ------------------------------------------------------------------------
\* retries of _fetch_url as collect_from_rss calls it
RssRetries == 2

\* _extract_publisher_from_google_news, the title it returns for an entry
\* without a source element
_extract_publisher_from_google_news(title) ==
    LET at == {i \in 1..(Len(title) - 2) : SubSeq(title, i, i + 2) = <<" ", "-", " ">>}
        i == MaxOf(at)
        base == Strip(SubSeq(title, 1, i - 1))
        tail == Strip(SubSeq(title, i + 3, Len(title)))
    IN  IF at = {} THEN title
        ELSE IF 2 <= Len(tail) /\ Len(tail) <= 60 /\ base # <<>> THEN base
        ELSE title

\* lines 102-131: one feed entry, <<>> if dropped, else <<item>>
rss_item(e, is_google_news) ==
    IF e.date # "target" THEN <<>>
    ELSE << [title |-> IF is_google_news
                       THEN _extract_publisher_from_google_news(Strip(e.title))
                       ELSE Strip(e.title),
             link |-> normalize_url(e.link),
             description |-> <<>>] >>

RECURSIVE rss_items(_, _, _)
\* lines 99-133: the entries of a fetched feed
rss_items(entries, i, is_google_news) ==
    IF i > Len(entries) THEN <<>>
    ELSE rss_item(entries[i], is_google_news) \o rss_items(entries, i + 1, is_google_news)

\* a feed as main sees it: [ok, entries]; ok is FALSE when _fetch_url gave
\* no content after its retries
FeedFailed == [ok |-> FALSE, entries |-> <<>>]

FeedOk(entries) == [ok |-> TRUE, entries |-> entries]

collect_from_rss(result, is_google_news) ==
    IF ~result.ok THEN <<>> ELSE rss_items(result.entries, 1, is_google_news)

\* ------------------------------------------------------------------------
\* run.collect_google_candidates / run.collect_google_items
\* ------------------------------------------------------------------------
\* default of GOOGLE_DEDUPE_THRESHOLD and GLOBAL_DEDUPE_THRESHOLD, percent
DedupeThreshold == 88

\* default of GOOGLE_CANDIDATES (90), scaled down
CandLimit == 3

WithProvider(items, provider) ==
    [i \in 1..Len(items) |-> SetField(items[i], "provider", provider)]

\* lines 240-269: one Google News feed and one fixed RSS source
collect_google_candidates(news_result, fixed_result) ==
    LET raw == WithProvider(collect_from_rss(news_result, TRUE), "google")
               \o WithProvider(collect_from_rss(fixed_result, FALSE), "rss")
    IN  IF raw = <<>> THEN <<>> ELSE dedupe_items(raw, DedupeThreshold).kept

\* ------------------------------------------------------------------------
\* run.main, steps 3-5: merge, global dedupe, tags, sort, truncate
\* ------------------------------------------------------------------------
HasField(r, f) == f \in DOMAIN r

\* lines 385-391
add_tags(it) ==
    LET t1 == SetField(it, "tier", infer_tier(it.link))
        t2 == SetField(t1, "category", classify_category(it.title, <<>>))
        t3 == SetField(t2, "companies", extract_companies(it.title, <<>>, 3))
    IN  IF HasField(t3, "monitor_score") THEN t3 ELSE SetField(t3, "monitor_score", 0)

\* lines 394-399
_sort_key(x) ==
    <<x.tier, -x.monitor_score,
      -(IF HasField(x, "battery_relevance") THEN x.battery_relevance ELSE 0)>>

\* lines 380-382: merge and global dedupe
merge_dedupe(naver_items, google_items) ==
    dedupe_items(naver_items \o google_items, DedupeThreshold).kept

\* lines 386-392
tag_all(raw) == [i \in 1..Len(raw) |-> add_tags(raw[i])]

\* line 401, as a broken mutant: the list is left in merge order
sort_final_unsorted(tagged) == tagged

\* line 401
sort_final(tagged) ==
    StableSort(tagged, LAMBDA x, y : LexLess(_sort_key(x), _sort_key(y)))

\* ------------------------------------------------------------------------
\* llm_enrich_gemini.enrich_items
\* ------------------------------------------------------------------------
\* default of GEMINI_MAX_COMPANIES
MAX_COMPANIES == 5

\* number of names kept after the merge (`merged[:3]`)
KeptCompanies == 3

\* default of GEMINI_BATCH_RETRIES
BATCH_RETRIES == 0

RECURSIVE Uniq(_)
\* the `if c and c not in out: out.append(c)` loops
Uniq(s) ==
    IF s = <<>> THEN <<>>
    ELSE LET init == Uniq(SubSeq(s, 1, Len(s) - 1))
             c == s[Len(s)]
         IN  IF c = <<>> \/ c \in Range(init) THEN init ELSE Append(init, c)

\* re.sub(r"[,\.\)\]]+$", "", c)
StripTrailingPunct(c) ==
    LET keep == {i \in 1..Len(c) : c[i] \notin {",", ".", ")", "]"}}
    IN  IF keep = {} THEN <<>> ELSE SubSeq(c, 1, MaxOf(keep))

\* _clean_company_list (no stopword is among the model's names)
_clean_company_list(comps) ==
    Uniq([i \in 1..Len(SelectSeq(comps, LAMBDA c : Len(Strip(c)) > 1)) |->
             StripTrailingPunct(Strip(SelectSeq(comps, LAMBDA c : Len(Strip(c)) > 1)[i]))])

\* \w of Python's re: letters, digits, "_", Hangul
IsReWordChar(c) ==
    c \in Range(LowerLetters) \cup Range(UpperLetters) \cup Digits \cup Hangul \cup {"_"}

\* the tokens _RX_ALLCAP skips
SkippedCaps ==
    {<<"E", "S", "S">>, <<"E", "V">>, <<"I", "R", "A">>, <<"C", "B", "A", "M">>,
     <<"E", "U", "V">>}

\* _rule_extract_companies: the brand and suffix patterns match none of the
\* model's headlines, the all-caps tokens \b[A-Z]{2,6}\b remain
_rule_extract_companies(title, description) ==
    LET text == title \o <<" ">> \o description
        isTok(i, j) == /\ j - i + 1 >= 2 /\ j - i + 1 <= 6
                       /\ \A k \in i..j : text[k] \in Range(UpperLetters)
                       /\ (i = 1 \/ ~IsReWordChar(text[i - 1]))
                       /\ (j = Len(text) \/ ~IsReWordChar(text[j + 1]))
        startsAt == {i \in 1..Len(text) : \E j \in i..Len(text) : isTok(i, j)}
        order == StableSort([p \in 1..Len(text) |-> p], LAMBDA x, y : x < y)
        starts == SelectSeq(order, LAMBDA i : i \in startsAt)
        tokAt(i) == SubSeq(text, i, CHOOSE j \in i..Len(text) : isTok(i, j))
        toks == [p \in 1..Len(starts) |-> tokAt(starts[p])]
    IN  Prefix(Uniq(SelectSeq(toks, LAMBDA t : t \notin SkippedCaps)), KeptCompanies)

RulesTable == [t \in NewsTitles |-> _rule_extract_companies(t, <<>>)]

RulesOf(title) ==
    IF title \in NewsTitles THEN RulesTable[title] ELSE _rule_extract_companies(title, <<>>)

\* _ensure_sentence_end
_ensure_sentence_end(s) ==
    LET t == Strip(s)
    IN  IF t = <<>> THEN t
        ELSE IF t[Len(t)] \in {".", "!", "?"} THEN t
        ELSE Append(t, ".")

\* Python's s[a:b] for 0 <= a <= b
Slice(s, a, b) ==
    IF a >= Len(s) THEN <<>> ELSE SubSeq(s, a + 1, IF b < Len(s) THEN b ELSE Len(s))

\* fallback_summary_3_sentences_from_description, lines 98-109 and 136-141.
\* The items of the model have no description: _split_sentences gives no
\* sentence, the base is the title, cut in thirds (the branches for a
\* description with one, two or more sentences are not reached).
fallback_summary_3_sentences_from_description(title, description) ==
    LET base == Strip(title)
        n == Len(base)
        c1 == IF n \div 3 > 1 THEN n \div 3 ELSE 1
        c2 == IF (2 * n) \div 3 > c1 + 1 THEN (2 * n) \div 3 ELSE c1 + 1
    IN  IF base = <<>> THEN << <<>>, <<>>, <<>> >>
        ELSE << _ensure_sentence_end(Slice(base, 0, c1)),
                _ensure_sentence_end(Slice(base, c1, c2)),
                _ensure_sentence_end(Slice(base, c2, n)) >>

\* lines 342-346: the sentences of a response item, made three strings
llm_sentences(sents) ==
    LET padded == [i \in 1..Len(sents) |-> Strip(sents[i])] \o << <<>>, <<>>, <<>> >>
    IN  [i \in 1..3 |-> _ensure_sentence_end(padded[i])]

\* line 365: `sum(1 for t in sents if t.strip()) < 3` is false
IsComplete(sents) == Cardinality({i \in 1..Len(sents) : Strip(sents[i]) # <<>>}) >= 3

\* lines 376-381 and 385-388, as a broken mutant: without `merged[:3]`
merge_companies_uncut(llm, rules, existing) == Uniq(llm \o rules \o existing)

\* lines 376-381 and 385-388: LLM first, then rules, then existing, three kept
merge_companies(llm, rules, existing) == Prefix(Uniq(llm \o rules \o existing), KeptCompanies)

\* lines 355-388: one item.  mapping: index -> [sents, companies], what the
\* batch response says for the index
enrich_item(it, i, mapping) ==
    LET existing == _clean_company_list(IF HasField(it, "companies") THEN it.companies ELSE <<>>)
        rules == RulesOf(it.title)
        llm == IF i \in DOMAIN mapping
               THEN _clean_company_list(Prefix(_clean_company_list(mapping[i].companies),
                                               MAX_COMPANIES))
               ELSE <<>>
        sents == IF i \in DOMAIN mapping THEN llm_sentences(mapping[i].sents)
                 ELSE << <<>>, <<>>, <<>> >>
        complete == i \in DOMAIN mapping /\ IsComplete(sents)
    IN  [f \in DOMAIN it \cup {"companies", "summary_3_sentences", "summary_from"} |->
            CASE f = "companies" -> merge_companies(llm, rules, existing)
              [] f = "summary_3_sentences" ->
                     IF complete THEN Prefix(sents, 3)
                     ELSE fallback_summary_3_sentences_from_description(it.title, <<>>)
              [] f = "summary_from" -> (IF complete THEN "llm" ELSE "fallback")
              [] OTHER -> it[f]]

\* lines 288-300 (no key: the empty mapping) and 355-388, for max_items = len(items)
enrich_with(items, mapping) ==
    [p \in 1..Len(items) |-> enrich_item(items[p], p - 1, mapping)]

\* lines 391-398: an item beyond the first n keeps its summary if it has one
enrich_rest(it) ==
    [f \in DOMAIN it \cup {"companies", "summary_3_sentences"} |->
        CASE f = "companies" ->
                 Prefix(_clean_company_list(IF HasField(it, "companies") THEN it.companies
                                            ELSE <<>>), KeptCompanies)
          [] f = "summary_3_sentences" ->
                 IF HasField(it, "summary_3_sentences") /\ it.summary_3_sentences # <<>>
                 THEN it.summary_3_sentences
                 ELSE fallback_summary_3_sentences_from_description(it.title, <<>>)
          [] OTHER -> it[f]]

\* enrich_items(items, max_items) with the mapping built from the response
\* (the empty mapping: no key, or the request raised)
enrich_items(items, max_items, mapping) ==
    [p \in 1..Len(items) |->
        IF p <= max_items THEN enrich_item(items[p], p - 1, mapping) ELSE enrich_rest(items[p])]

\* ------------------------------------------------------------------------
\* Inputs of the dedupe entry points
\* ------------------------------------------------------------------------
U1 == Url("u1", <<>>)

\* u1 with a tracking parameter
U1utm == Url("u1", << <<"u", "t", "m", "_", "x">> >>)

U2 == Url("u2", << <<"i", "d">> >>)

U3 == Url("u3", <<>>)

U3utm == Url("u3", << <<"u", "t", "m", "_", "x">> >>)

\* candidate items the input lists are drawn from
DedupePool ==
    {[title |-> <<"a", "a", "a">>, link |-> U1],
     [title |-> <<"a", "b", "a">>, link |-> U2],
     [title |-> <<"a", "b">>,      link |-> U3utm],
     [title |-> <<"b", "a">>,      link |-> U3],
     [title |-> <<"b", "c", "a">>, link |-> NoUrl],
     [title |-> <<"A", "B", "!">>, link |-> U1]}

\* sim_threshold / threshold values, in percent (0.88 is the default of both
\* functions, 0.92 the value dedupe_by_llm_semantic passes)
Thresholds == {60, 80, 88, 92}

VARIABLES
    entry,          \* the entry point this run exercises
    pc,             \* position of the run
    \* dedupe_items / dedupe_by_title_similarity
    raw_items,      \* argument: the candidate list
    sim_threshold,  \* argument: the threshold, in percent
    callee,         \* which dedupe function was called
    kept,           \* the returned list
    keptIdx,        \* input position of each returned item
    merges,         \* <<i, k>>: input i was dropped as a duplicate of input k
    \* environment
    gemini_key,     \* GEMINI_API_KEY is set
    \* _select_google_by_llm_battery_relevance
    candidates,     \* argument
    top_k,          \* argument (also of the Naver pipeline)
    rel_by_i,       \* index -> relevance, from the classifier's response
    imp_by_i,       \* index -> importance
    ek_by_i,        \* index -> event key
    reps,           \* the event representatives, before the relevance floor
    picked,         \* the returned selection
    path,           \* the branch taken: "none", "no_key", "llm", "except"
    \* collect_naver_top15_last24h_deduped_and_ranked
    feed,           \* what the search API serves, newest first
    max_fetch,      \* argument fetch_n / max_fetch
    start,          \* collect_naver_last24h: start
    out,            \* collect_naver_last24h: out
    seen_links,     \* collect_naver_last24h: seen_links
    deduped,        \* dedupe_by_llm_semantic: kept
    di,             \* dedupe_by_llm_semantic: position of `for it in items`
    attempt,        \* the retry loops' attempt
    scores,         \* score_importance_by_llm: scores
    chunk_start,    \* score_importance_by_llm: start of the current chunk
    picked_items,   \* the pipeline's result
    picked_scores,
    mapping,        \* score_importance_by_llm: mapping, what _llm_score_chunk returned
    decision,       \* dedupe_by_llm_semantic: decision, what _llm_is_duplicate returned
    \* collect_from_rss
    rss_entries,    \* the entries the feed serves
    source_is_google_news,  \* source_name starts with "google news"
    rss_out,        \* the returned list
    \* main
    naver_creds,    \* NAVER_CLIENT_ID and NAVER_CLIENT_SECRET are set
    max_items,      \* MAX_ITEMS
    min_items,      \* MIN_ITEMS
    naver_items,    \* what collect_naver_items returned
    final_items,    \* main's `items`: the final selection
    warned,         \* the "[WARN] Only ..." line was logged
    written,        \* the outputs were written
    \* effects
    requests,       \* number of requests sent to the Naver search API
    llmCalls,       \* number of classifier (generate_content) calls made
    error,          \* the uncaught exception, "none" if none
    \* the pure functions called on their own
    fn_args,        \* the arguments of the call
    fn_result       \* what the call returned

dedupeVars == <<raw_items, sim_threshold, callee, kept, keptIdx, merges>>

selVars == <<candidates, top_k, rel_by_i, imp_by_i, ek_by_i, reps, picked, path>>

selVarsButTopK == <<candidates, rel_by_i, imp_by_i, ek_by_i, reps, picked, path>>

naverVars == <<feed, max_fetch, start, out, seen_links, deduped, di, attempt,
               scores, chunk_start, picked_items, picked_scores, mapping, decision>>

rssVars == <<rss_entries, source_is_google_news, rss_out>>

runVars == <<naver_creds, max_items, min_items, naver_items, final_items, warned,
             written>>

fxVars == <<requests, llmCalls, error>>

utilVars == <<fn_args, fn_result>>

vars == <<entry, pc, dedupeVars, gemini_key, selVars, naverVars, rssVars, runVars, fxVars,
          utilVars>>

EmptyDict == [i \in {} |-> 0]

\* `mapping = None` / `mapping = {...}`
NoMapping == [ok |-> FALSE, scores |-> EmptyDict]

SomeMapping(m) == [ok |-> TRUE, scores |-> m]

IdleDedupe ==
    /\ raw_items = <<>> /\ sim_threshold = 88 /\ callee = "none"
    /\ kept = <<>> /\ keptIdx = <<>> /\ merges = {}

IdleSelect ==
    /\ candidates = <<>> /\ top_k = 0
    /\ rel_by_i = EmptyDict /\ imp_by_i = EmptyDict /\ ek_by_i = EmptyDict
    /\ reps = <<>> /\ picked = <<>> /\ path = "none"

IdleNaver ==
    /\ feed = <<>> /\ max_fetch = 0 /\ start = 1 /\ out = <<>> /\ seen_links = {}
    /\ deduped = <<>> /\ di = 1 /\ attempt = 0 /\ scores = <<>> /\ chunk_start = 0
    /\ picked_items = <<>> /\ picked_scores = <<>> /\ mapping = NoMapping
    /\ decision = NoDecision

IdleRss == rss_entries = <<>> /\ source_is_google_news = FALSE /\ rss_out = <<>>

IdleRun ==
    /\ naver_creds = FALSE /\ max_items = 0 /\ min_items = 0
    /\ naver_items = <<>> /\ final_items = <<>> /\ warned = FALSE /\ written = FALSE

NoEffects == requests = 0 /\ llmCalls = 0 /\ error = "none"

IdleUtil == fn_args = <<>> /\ fn_result = <<>>

InitDedupe ==
    /\ entry = "dedupe"
    /\ pc = "start"
    /\ raw_items \in SeqsUpTo(DedupePool, MaxItems)
    /\ sim_threshold \in Thresholds
    /\ callee = "none"
    /\ kept = <<>>
    /\ keptIdx = <<>>
    /\ merges = {}
    /\ gemini_key = FALSE
    /\ IdleSelect
    /\ IdleNaver
    /\ IdleRss
    /\ IdleRun
    /\ NoEffects
    /\ IdleUtil

CallDedupeItems ==
    /\ entry = "dedupe" /\ pc = "start"
    /\ \E r \in {dedupe_items(raw_items, sim_threshold)} :
           /\ kept' = r.kept
           /\ keptIdx' = r.keptIdx
           /\ merges' = r.merges
    /\ callee' = "dedupe_items"
    /\ pc' = "returned"
    /\ UNCHANGED <<entry, utilVars, raw_items, sim_threshold, gemini_key, selVars, naverVars,
                   rssVars, runVars, fxVars>>

CallDedupeByTitleSimilarity ==
    /\ entry = "dedupe" /\ pc = "start"
    /\ \E r \in {dedupe_by_title_similarity(raw_items, sim_threshold)} :
           /\ kept' = r.kept
           /\ keptIdx' = r.keptIdx
           /\ merges' = r.merges
    /\ callee' = "dedupe_by_title_similarity"
    /\ pc' = "returned"
    /\ UNCHANGED <<entry, utilVars, raw_items, sim_threshold, gemini_key, selVars, naverVars,
                   rssVars, runVars, fxVars>>

NextDedupe == CallDedupeItems \/ CallDedupeByTitleSimilarity

SpecDedupe == InitDedupe /\ [][NextDedupe]_vars

\* the similarity the called function computes for (later item, earlier item)
CalleeSim(a, b) ==
    IF callee = "dedupe_items" THEN title_similarity(a, b) ELSE _title_similarity(a, b)

\* the result of the called function at another threshold
CalleeAt(threshold) ==
    IF callee = "dedupe_items" THEN dedupe_items(raw_items, threshold)
    ELSE dedupe_by_title_similarity(raw_items, threshold)

Returned == entry = "dedupe" /\ pc = "returned"

Inputs == 1..Len(raw_items)

Reps == Range(keptIdx)

GroupOf(k) == {k} \cup {i \in Inputs : <<i, k>> \in merges}

\* C1: after dedupe_by_title_similarity / dedupe_items every input candidate
\* is either a kept representative or merged into exactly one kept
\* representative: the groups partition the input, none in two groups, none lost.
C1_Partition ==
    Returned =>
        /\ \A p \in merges : p[1] \in Inputs /\ p[2] \in Reps
        /\ \A i \in Inputs :
              \/ i \in Reps /\ ~\E k \in Inputs : <<i, k>> \in merges
              \/ i \notin Reps /\ Cardinality({k \in Inputs : <<i, k>> \in merges}) = 1
        /\ UNION {GroupOf(k) : k \in Reps} = Inputs
        /\ \A k1, k2 \in Reps : k1 # k2 => GroupOf(k1) \cap GroupOf(k2) = {}
        /\ Len(keptIdx) = Cardinality(Reps)

\* a run in which a group of three and a second group were formed
C1_Witness ==
    /\ Returned
    /\ Len(raw_items) = 4
    /\ \E k \in Reps : Cardinality(GroupOf(k)) = 3
    /\ Cardinality(Reps) = 2

Dropped == Inputs \ Reps

IsIncreasing(q) == \A i, j \in 1..Len(q) : i < j => q[i] < q[j]

\* C2: pairwise grouping is first-wins in input order: the kept list is a
\* subsequence of the input in the same order, the first candidate is kept, a
\* candidate is dropped iff its similarity to some earlier-kept representative
\* is >= the threshold, and no two kept representatives have similarity >= the
\* threshold.
C2_FirstWins ==
    Returned =>
        /\ IsIncreasing(keptIdx)
        /\ \A j \in 1..Len(kept) : kept[j].title = raw_items[keptIdx[j]].title
        /\ raw_items # <<>> => 1 \in Reps
        /\ \A i \in Inputs :
              i \in Dropped <=>
                  \E k \in Reps : k < i /\ IsDup(CalleeSim(raw_items[i].title, raw_items[k].title),
                                                 sim_threshold)
        /\ \A k1, k2 \in Reps :
              k1 # k2 => ~IsDup(CalleeSim(raw_items[k1].title, raw_items[k2].title), sim_threshold)

\* C3 (as claimed): raising the threshold never lowers the number of groups
C3_Monotone ==
    Returned =>
        \A t2 \in Thresholds :
            sim_threshold <= t2 => Len(CalleeAt(t2).kept) >= Len(kept)

\* C3 (amended): for candidate lists of at most three items, raising the
\* threshold never lowers the number of groups; and at any length a list in
\* which nothing is merged at the lower threshold keeps all its items at the
\* higher one
C3_MonotoneUpToThree ==
    Returned =>
        \A t2 \in Thresholds :
            sim_threshold <= t2 =>
                /\ Len(raw_items) <= 3 => Len(CalleeAt(t2).kept) >= Len(kept)
                /\ Len(kept) = Len(raw_items) => Len(CalleeAt(t2).kept) = Len(raw_items)

\* three candidates of which the higher threshold keeps more than the lower
C3_Witness ==
    /\ Returned
    /\ Len(raw_items) = 3
    /\ \E t2 \in Thresholds : sim_threshold < t2 /\ Len(CalleeAt(t2).kept) > Len(kept)
    /\ Len(kept) < 3

\* ------------------------------------------------------------------------
\* The Google selector as an entry point
\* ------------------------------------------------------------------------
MaxCand == 3

MaxTopK == 3

G1 == [title |-> TInvest, link |-> U1, provider |-> "google"]

G2 == [title |-> TLaunch, link |-> U2, provider |-> "google"]

G3 == [title |-> TPolicy, link |-> U3, provider |-> "rss"]

G4 == [title |-> TPlain, link |-> Url("u4", <<>>), provider |-> "google"]

GooglePool == <<G1, G2, G3, G4>>

\* n candidates, starting at position rot of the pool
CandidatesFrom(rot, n) ==
    [i \in 1..n |-> GooglePool[((i - 1 + rot) % Len(GooglePool)) + 1]]

\* what the classifier may say about one title; "" is a blank event_key
ScoreChoices ==
    {[event_key |-> "e1",     battery_relevance |-> 80, monitoring_importance |-> 50],
     [event_key |-> "e1",     battery_relevance |-> 30, monitoring_importance |-> 80],
     [event_key |-> "",       battery_relevance |-> 60, monitoring_importance |-> 10],
     [event_key |-> "item_0", battery_relevance |-> 30, monitoring_importance |-> 10],
     [event_key |-> "e2",     battery_relevance |-> 60, monitoring_importance |-> 80]}

\* no entry for the index
NoScore == [event_key |-> "", battery_relevance |-> -1, monitoring_importance |-> -1]

\* an entry for an index that is no candidate's
StrayScore == [event_key |-> "e3", battery_relevance |-> 80, monitoring_importance |-> 80]

\* the parsed responses for n titles: index -> item, any index possibly
\* missing, possibly one entry with the index n, which is out of range
Responses(n) ==
    {[i \in {j \in 0..(n - 1) : f[j] # NoScore} \cup (IF stray THEN {n} ELSE {}) |->
         IF i = n THEN StrayScore ELSE f[i]] :
     f \in [0..(n - 1) -> ScoreChoices \cup {NoScore}], stray \in BOOLEAN}

InitSelect ==
    /\ entry = "select"
    /\ pc = "start"
    /\ gemini_key \in BOOLEAN
    /\ \E rot \in 0..(Len(GooglePool) - 1), n \in 0..MaxCand : candidates = CandidatesFrom(rot, n)
    /\ top_k \in 0..MaxTopK
    /\ rel_by_i = EmptyDict /\ imp_by_i = EmptyDict /\ ek_by_i = EmptyDict
    /\ reps = <<>> /\ picked = <<>> /\ path = "none"
    /\ IdleDedupe
    /\ IdleNaver
    /\ IdleRss
    /\ IdleRun
    /\ NoEffects
    /\ IdleUtil

\* `if not api_key` / `if not GEMINI_API_KEY`, as a broken mutant: the key is
\* never found missing
KeyMissingNever == FALSE

\* `if not api_key` (run.py) / `if not GEMINI_API_KEY` (naver_collector.py,
\* llm_enrich_gemini.py)
KeyMissing == ~gemini_key

\* the selector is called: as the entry point, or by collect_google_items
AtSelect == (entry = "select" /\ pc = "start") \/ (entry = "main" /\ pc = "select")

\* where the selector returns to
AfterSelect == IF entry = "main" THEN "merge" ELSE "returned"

\* lines 121-128: no key or no candidates
SelectNoKey ==
    /\ AtSelect
    /\ KeyMissing \/ candidates = <<>>
    /\ picked' = select_fallback(candidates, top_k)
    /\ path' = "no_key"
    /\ pc' = AfterSelect
    /\ UNCHANGED <<entry, utilVars, dedupeVars, gemini_key, candidates, top_k,
                   rel_by_i, imp_by_i, ek_by_i, reps, naverVars, rssVars, runVars, fxVars>>

\* lines 132-228: the classifier answers and the answer validates
SelectByLlm ==
    /\ AtSelect
    /\ ~KeyMissing /\ candidates # <<>>
    /\ \E resp \in Responses(Len(candidates)) :
           /\ rel_by_i' = [i \in DOMAIN resp |-> resp[i].battery_relevance]
           /\ imp_by_i' = [i \in DOMAIN resp |-> resp[i].monitoring_importance]
           /\ ek_by_i' = [i \in DOMAIN resp |-> EventKeyOf(resp[i], i)]
    /\ \E r \in {select_by_scores(candidates, top_k, rel_by_i', imp_by_i', ek_by_i')} :
           /\ reps' = r.reps
           /\ picked' = r.picked
    /\ path' = "llm"
    /\ llmCalls' = llmCalls + 1
    /\ pc' = AfterSelect
    /\ UNCHANGED <<entry, utilVars, dedupeVars, gemini_key, candidates, top_k, naverVars,
                   rssVars, runVars, requests, error>>

\* lines 230-237: anything inside the try raises (the import, the call, the
\* JSON validation); called tells whether the request had been made
SelectExcept ==
    /\ AtSelect
    /\ ~KeyMissing /\ candidates # <<>>
    /\ picked' = select_fallback(candidates, top_k)
    /\ path' = "except"
    /\ \E called \in BOOLEAN : llmCalls' = llmCalls + (IF called THEN 1 ELSE 0)
    /\ pc' = AfterSelect
    /\ UNCHANGED <<entry, utilVars, dedupeVars, gemini_key, candidates, top_k,
                   rel_by_i, imp_by_i, ek_by_i, reps, naverVars, rssVars, runVars,
                   requests, error>>

NextSelect == SelectNoKey \/ SelectByLlm \/ SelectExcept

SpecSelect == InitSelect /\ [][NextSelect]_vars

Selected == (entry = "select" /\ pc = "returned") \/ (entry = "main" /\ pc = "merge")

\* the representatives that pass the relevance floor
Passing == SelectSeq(reps, LAMBDA i : Get(rel_by_i, i, 0) >= relevance_min)

\* C5: when the relevance floor leaves fewer than top_k representatives, the
\* floor is relaxed and lower-relevance representatives are backfilled: the
\* selection has min(top_k, number of event groups) items.
C5_FloorBackfill ==
    (Selected /\ path = "llm" /\ Len(Passing) < top_k) =>
        Len(picked) = (IF top_k < Len(reps) THEN top_k ELSE Len(reps))

\* ------------------------------------------------------------------------
\* The Naver pipeline as an entry point:
\* collect_naver_top15_last24h_deduped_and_ranked(query=..., fetch_n, top_k)
\* ------------------------------------------------------------------------
MaxFeed == 3

\* items the search API may serve (a response serves no item twice): two
\* with the same origin, two with origins that differ in a tracking parameter
\* only, one before the cutoff, one without origin, one without a parsable date
FeedPool ==
    {[title |-> TInvest,     pub |-> "fresh", origin |-> Url("n1", <<>>)],
     [title |-> TInvestBang, pub |-> "fresh", origin |-> Url("n2", <<>>)],
     [title |-> TInvestAlt,  pub |-> "fresh", origin |-> Url("n1", << <<"u", "t", "m", "_", "x">> >>)],
     [title |-> TLaunch,     pub |-> "fresh", origin |-> Url("n1", <<>>)],
     [title |-> TPolicy,     pub |-> "old",   origin |-> Url("n5", <<>>)],
     [title |-> TPlain,      pub |-> "fresh", origin |-> NoUrl],
     [title |-> TPlain,      pub |-> "bad",   origin |-> Url("n7", <<>>)]}

\* the fetch_n and top_k of a call
PipelineArgs ==
    {[fetch_n |-> 1, top_k |-> 1],
     [fetch_n |-> 2, top_k |-> 1],
     [fetch_n |-> 3, top_k |-> 2],
     [fetch_n |-> 3, top_k |-> 0]}

InitNaver ==
    /\ entry = "naver"
    /\ pc = "fetch"
    /\ gemini_key \in BOOLEAN
    /\ feed \in DistinctSeqsUpTo(FeedPool, MaxFeed)
    /\ \E args \in PipelineArgs :
           /\ max_fetch = args.fetch_n
           /\ top_k = args.top_k
    /\ start = 1 /\ out = <<>> /\ seen_links = {}
    /\ deduped = <<>> /\ di = 1 /\ attempt = 0 /\ scores = <<>> /\ chunk_start = 0
    /\ picked_items = <<>> /\ picked_scores = <<>> /\ mapping = NoMapping
    /\ decision = NoDecision
    /\ candidates = <<>>
    /\ rel_by_i = EmptyDict /\ imp_by_i = EmptyDict /\ ek_by_i = EmptyDict
    /\ reps = <<>> /\ picked = <<>> /\ path = "none"
    /\ IdleDedupe
    /\ IdleRss
    /\ IdleRun
    /\ NoEffects
    /\ IdleUtil

naverArgs == <<entry, utilVars, dedupeVars, gemini_key, selVars, feed, max_fetch, rssVars, runVars>>

\* lines 144-198: one pass of the while loop, the request answered with 2xx
NaverFetchOk ==
    /\ entry = "naver" /\ pc = "fetch"
    /\ requests' = requests + 1
    /\ LET display == IF PageSize < max_fetch - Len(out) THEN PageSize ELSE max_fetch - Len(out)
           items == PageOf(feed, start, display)
           st == collect_items([out |-> out, seen_links |-> seen_links,
                                reached_older |-> FALSE, full |-> FALSE],
                               items, 1, max_fetch)
       IN  IF items = <<>>
           THEN /\ pc' = "dedupe"
                /\ UNCHANGED <<start, out, seen_links>>
           ELSE /\ out' = st.out
                /\ seen_links' = st.seen_links
                /\ IF st.reached_older
                   THEN /\ pc' = "dedupe"
                        /\ UNCHANGED start
                   ELSE /\ start' = start + PageSize
                        /\ pc' = IF start' <= MaxStart /\ Len(out') < max_fetch
                                 THEN "fetch" ELSE "dedupe"
    /\ UNCHANGED <<naverArgs, deduped, di, attempt, scores, chunk_start,
                   picked_items, picked_scores, mapping,
                   decision, llmCalls, error>>

\* lines 148-150: the response has status >= 400
NaverFetchHttpError ==
    /\ entry = "naver" /\ pc = "fetch"
    /\ requests' = requests + 1
    /\ error' = "RuntimeError"
    /\ pc' = "raised"
    /\ UNCHANGED <<naverArgs, start, out, seen_links, deduped, di, attempt, scores,
                   chunk_start, picked_items, picked_scores, mapping,
                   decision, llmCalls>>

\* line 148: requests.get raises (connection error, timeout)
NaverFetchTransportError ==
    /\ entry = "naver" /\ pc = "fetch"
    /\ requests' = requests + 1
    /\ error' = "RequestException"
    /\ pc' = "raised"
    /\ UNCHANGED <<naverArgs, start, out, seen_links, deduped, di, attempt, scores,
                   chunk_start, picked_items, picked_scores, mapping,
                   decision, llmCalls>>

\* lines 269-271 and 407-409: without a key, string similarity at 0.92
NaverDedupeNoKey ==
    /\ entry = "naver" /\ pc = "dedupe"
    /\ KeyMissing
    /\ deduped' = dedupe_by_title_similarity(out, NoKeyThreshold).kept
    /\ pc' = "score"
    /\ UNCHANGED <<naverArgs, start, out, seen_links, di, attempt, scores, chunk_start,
                   picked_items, picked_scores, mapping,
                   decision, fxVars>>

NeedsLlm == deduped # <<>> /\ PassesFastGate(out[di].title, deduped)

\* lines 278-293: the first item, or no kept title within the fast gate
NaverDedupeKeep ==
    /\ entry = "naver" /\ pc = "dedupe"
    /\ ~KeyMissing /\ di <= Len(out)
    /\ ~NeedsLlm
    /\ deduped' = Append(deduped, out[di])
    /\ di' = di + 1
    /\ UNCHANGED <<pc, naverArgs, start, out, seen_links, attempt, scores, chunk_start,
                   picked_items, picked_scores, mapping,
                   decision, fxVars>>

\* lines 297-319: _llm_is_duplicate answers
NaverDedupeLlmAnswer ==
    /\ entry = "naver" /\ pc = "dedupe"
    /\ ~KeyMissing /\ di <= Len(out)
    /\ NeedsLlm
    /\ llmCalls' = llmCalls + 1
    /\ \E d \in Decisions :
           /\ decision' = d
           /\ deduped' = IF DecisionDrops(d) THEN deduped ELSE Append(deduped, out[di])
    /\ di' = di + 1
    /\ attempt' = 0
    /\ UNCHANGED <<pc, naverArgs, start, out, seen_links, scores, chunk_start,
                   picked_items, picked_scores, mapping, requests, error>>

\* lines 299-313: _llm_is_duplicate raises; retried, and after the last
\* attempt the item is kept
NaverDedupeLlmRaise ==
    /\ entry = "naver" /\ pc = "dedupe"
    /\ ~KeyMissing /\ di <= Len(out)
    /\ NeedsLlm
    /\ llmCalls' = llmCalls + 1
    /\ decision' = NoDecision
    /\ IF MayRetry(attempt, LLM_DEDUPE_RETRIES)
       THEN /\ attempt' = attempt + 1
            /\ UNCHANGED <<deduped, di>>
       ELSE /\ attempt' = 0
            /\ deduped' = Append(deduped, out[di])
            /\ di' = di + 1
    /\ UNCHANGED <<pc, naverArgs, start, out, seen_links, scores, chunk_start,
                   picked_items, picked_scores, mapping, requests, error>>

\* line 322, then lines 411-412: kept is returned and the scores start at 0
NaverDedupeReturn ==
    /\ entry = "naver" /\ pc = "dedupe"
    /\ ~KeyMissing /\ di > Len(out)
    /\ scores' = [p \in 1..Len(deduped) |-> 0]
    /\ decision' = NoDecision
    /\ pc' = "score"
    /\ UNCHANGED <<naverArgs, start, out, seen_links, deduped, di, attempt, chunk_start,
                   picked_items, picked_scores, mapping, fxVars>>

\* lines 407-409: without a key every score is the heuristic's
NaverScoreNoKey ==
    /\ entry = "naver" /\ pc = "score"
    /\ KeyMissing
    /\ scores' = heuristic_importance_scores(deduped)
    /\ pc' = "select"
    /\ UNCHANGED <<naverArgs, start, out, seen_links, deduped, di, attempt, chunk_start,
                   picked_items, picked_scores, mapping,
                   decision, fxVars>>

\* the indexes of the current chunk
ChunkIdxs == {i \in chunk_start..(chunk_start + ChunkSize - 1) : i < Len(deduped)}

\* lines 415-444: _llm_score_chunk answers
NaverScoreChunkAnswer ==
    /\ entry = "naver" /\ pc = "score"
    /\ ~KeyMissing /\ chunk_start < Len(deduped)
    /\ llmCalls' = llmCalls + 1
    /\ \E m \in ChunkMappings(ChunkIdxs) :
           /\ mapping' = SomeMapping(m)
           /\ scores' = fill_scores(scores, deduped, ChunkIdxs, m)
    /\ chunk_start' = chunk_start + ChunkSize
    /\ attempt' = 0
    /\ UNCHANGED <<pc, naverArgs, start, out, seen_links, deduped, di, decision,
                   picked_items, picked_scores, requests, error>>

\* lines 421-436: _llm_score_chunk raises; retried, and after the last
\* attempt the chunk is scored by the heuristic
NaverScoreChunkRaise ==
    /\ entry = "naver" /\ pc = "score"
    /\ ~KeyMissing /\ chunk_start < Len(deduped)
    /\ llmCalls' = llmCalls + 1
    /\ mapping' = NoMapping
    /\ IF MayRetry(attempt, LLM_IMPORTANCE_RETRIES)
       THEN /\ attempt' = attempt + 1
            /\ UNCHANGED <<scores, chunk_start>>
       ELSE /\ attempt' = 0
            /\ scores' = fill_heuristic(scores, deduped, ChunkIdxs)
            /\ chunk_start' = chunk_start + ChunkSize
    /\ UNCHANGED <<pc, naverArgs, start, out, seen_links, deduped, di, decision,
                   picked_items, picked_scores, requests, error>>

\* line 446: the scores are returned (mapping is a local of the function)
NaverScoreReturn ==
    /\ entry = "naver" /\ pc = "score"
    /\ ~KeyMissing /\ chunk_start >= Len(deduped)
    /\ mapping' = NoMapping
    /\ pc' = "select"
    /\ UNCHANGED <<naverArgs, start, out, seen_links, deduped, di, attempt, scores,
                   chunk_start, picked_items, picked_scores, decision, fxVars>>

\* lines 506-514
NaverSelect ==
    /\ entry = "naver" /\ pc = "select"
    /\ \E r \in {naver_pick(deduped, scores, top_k)} :
           /\ picked_items' = r.picked_items
           /\ picked_scores' = r.picked_scores
    /\ pc' = "returned"
    /\ UNCHANGED <<naverArgs, start, out, seen_links, deduped, di, attempt, scores,
                   chunk_start, mapping,
                   decision, fxVars>>

NextNaver ==
    \/ NaverFetchOk \/ NaverFetchHttpError \/ NaverFetchTransportError
    \/ NaverDedupeNoKey \/ NaverDedupeKeep \/ NaverDedupeLlmAnswer
    \/ NaverDedupeLlmRaise \/ NaverDedupeReturn
    \/ NaverScoreNoKey \/ NaverScoreChunkAnswer \/ NaverScoreChunkRaise
    \/ NaverScoreReturn \/ NaverSelect

SpecNaver == InitNaver /\ [][NextNaver]_vars

\* ------------------------------------------------------------------------
\* collect_from_rss as an entry point, and the feeds main reads
\* ------------------------------------------------------------------------
MaxEntries == 2

\* entries a feed may serve: two of them with links that differ in a tracking
\* parameter only, one without a link, one of another day, one without a
\* parsable date
RssPool ==
    {[title |-> TInvest,     link |-> U1,     date |-> "target"],
     [title |-> TInvestSwap, link |-> U1utm,  date |-> "target"],
     [title |-> TPolicy,     link |-> U3utm,  date |-> "target"],
     [title |-> TLaunch,     link |-> U3,     date |-> "other"],
     [title |-> TInvestBang, link |-> NoUrl,  date |-> "target"],
     [title |-> TPlain,      link |-> U2,     date |-> "bad"]}

InitRss ==
    /\ entry = "rss"
    /\ pc = "fetch"
    /\ rss_entries \in SeqsUpTo(RssPool, MaxEntries)
    /\ source_is_google_news \in BOOLEAN
    /\ rss_out = <<>>
    /\ gemini_key = FALSE
    /\ IdleDedupe
    /\ IdleSelect
    /\ IdleNaver
    /\ IdleRun
    /\ NoEffects
    /\ IdleUtil

\* _fetch_url lines 47-51, collect_from_rss lines 99-133: the request is
\* answered with a status below 400
RssFetchOk ==
    /\ entry = "rss" /\ pc = "fetch"
    /\ rss_out' = collect_from_rss(FeedOk(rss_entries), source_is_google_news)
    /\ pc' = "returned"
    /\ UNCHANGED <<entry, utilVars, dedupeVars, gemini_key, selVars, naverVars, rss_entries,
                   source_is_google_news, runVars, fxVars>>

\* _fetch_url lines 49-56: status >= 400 raises inside the try, a transport
\* error raises from requests.get; both are caught, the request is retried,
\* and after the last attempt None is returned (collect_from_rss: [])
RssFetchError ==
    /\ entry = "rss" /\ pc = "fetch"
    /\ IF MayRetry(attempt, RssRetries)
       THEN /\ attempt' = attempt + 1
            /\ UNCHANGED <<pc, rss_out>>
       ELSE /\ rss_out' = collect_from_rss(FeedFailed, source_is_google_news)
            /\ pc' = "returned"
            /\ UNCHANGED attempt
    /\ UNCHANGED <<entry, utilVars, dedupeVars, gemini_key, selVars, rss_entries,
                   source_is_google_news, runVars, fxVars,
                   feed, max_fetch, start, out, seen_links, deduped, di, scores,
                   chunk_start, picked_items, picked_scores, mapping,
                   decision>>

NextRss == RssFetchOk \/ RssFetchError

SpecRss == InitRss /\ [][NextRss]_vars

\* ------------------------------------------------------------------------
\* run.main
\* ------------------------------------------------------------------------
\* GOOGLE_COUNT, MAX_ITEMS, MIN_ITEMS (by default MAX_ITEMS is
\* NAVER_COUNT + GOOGLE_COUNT and MIN_ITEMS is min(10, MAX_ITEMS))
RunConfigs ==
    {[google_count |-> 3, max_items |-> 3, min_items |-> 3],
     [google_count |-> 2, max_items |-> 3, min_items |-> 1],
     [google_count |-> 3, max_items |-> 2, min_items |-> 2]}

\* what a feed may give main: no content, or up to n entries, none twice
FeedResults(n) == {FeedFailed} \cup {FeedOk(es) : es \in DistinctSeqsUpTo(RssPool, n)}

\* the batch responses of the enrichment in a run: entries for any of the
\* indexes, with three sentences and naming no company
RunEnrichMappings(n) ==
    {[i \in dom |-> [sents |-> << <<"a", ".">>, <<"b", ".">>, <<"c", ".">> >>,
                      companies |-> <<>>]] : dom \in SUBSET (0..(n - 1))}

InitRun ==
    /\ entry = "main"
    /\ pc = "naver"
    /\ gemini_key \in BOOLEAN
    /\ naver_creds \in BOOLEAN
    /\ \E cfg \in RunConfigs :
           /\ top_k = cfg.google_count
           /\ max_items = cfg.max_items
           /\ min_items = cfg.min_items
    /\ naver_items = <<>> /\ final_items = <<>> /\ warned = FALSE /\ written = FALSE
    /\ candidates = <<>>
    /\ rel_by_i = EmptyDict /\ imp_by_i = EmptyDict /\ ek_by_i = EmptyDict
    /\ reps = <<>> /\ picked = <<>> /\ path = "none"
    /\ IdleDedupe
    /\ IdleNaver
    /\ IdleRss
    /\ NoEffects
    /\ IdleUtil

runFrame == <<entry, utilVars, dedupeVars, gemini_key, naverVars, rssVars, naver_creds, max_items,
              min_items, top_k>>

\* the same without the attempt of the enrichment's retry loop
enrichFrame == <<entry, utilVars, dedupeVars, gemini_key, feed, max_fetch, start, out, seen_links,
                 deduped, di, scores, chunk_start, picked_items, picked_scores, mapping,
                   decision,
                 rssVars, naver_creds, max_items, min_items, top_k>>

\* collect_naver_items lines 291-295: no credentials, NAVER is skipped
MainNaverSkipped ==
    /\ entry = "main" /\ pc = "naver"
    /\ ~naver_creds
    /\ naver_items' = <<>>
    /\ pc' = "google"
    /\ UNCHANGED <<runFrame, candidates, rel_by_i, imp_by_i, ek_by_i, reps, picked, path,
                   final_items, warned, written, fxVars>>

\* collect_naver_items lines 303-309: the pipeline is called with the keyword
\* argument `queries`, which collect_naver_top15_last24h_deduped_and_ranked
\* (keyword-only client_id, client_secret, query, fetch_n, top_k) does not
\* take: the call raises TypeError before the pipeline runs, and nothing in
\* collect_naver_items or main catches it
MainNaverCall ==
    /\ entry = "main" /\ pc = "naver"
    /\ naver_creds
    /\ error' = "TypeError"
    /\ pc' = "raised"
    /\ UNCHANGED <<runFrame, candidates, rel_by_i, imp_by_i, ek_by_i, reps, picked, path,
                   naver_items, final_items, warned, written, requests, llmCalls>>

\* collect_google_items lines 273-280: the candidates, cut to GOOGLE_CANDIDATES;
\* without candidates the selector is not called
MainCollectGoogle ==
    /\ entry = "main" /\ pc = "google"
    /\ \E news \in FeedResults(MaxEntries), fixed \in FeedResults(1) :
           \E cand \in {collect_google_candidates(news, fixed)} :
               /\ candidates' = Prefix(cand, CandLimit)
               /\ pc' = IF cand = <<>> THEN "merge" ELSE "select"
    /\ UNCHANGED <<runFrame, rel_by_i, imp_by_i, ek_by_i, reps, picked, path,
                   naver_items, final_items, warned, written, fxVars>>

\* main lines 380-408: merge, global dedupe, tags, sort, cut to MAX_ITEMS,
\* and the warning when fewer than MIN_ITEMS remain (the selector's locals
\* are gone by now)
MainMergeAndRank ==
    /\ entry = "main" /\ pc = "merge"
    /\ \E raw \in {merge_dedupe(naver_items, picked)} :
           \E tagged \in {tag_all(raw)} :
               \E sorted \in {sort_final(tagged)} :
                   /\ final_items' = Prefix(sorted, max_items)
                   /\ warned' = (Len(final_items') < min_items)
    /\ rel_by_i' = EmptyDict /\ imp_by_i' = EmptyDict /\ ek_by_i' = EmptyDict
    /\ reps' = <<>>
    /\ pc' = "enrich"
    /\ UNCHANGED <<runFrame, candidates, picked, path, naver_items, written, fxVars>>

\* enrich_items lines 288-300: no key, fallback summaries only
MainEnrichNoKey ==
    /\ entry = "main" /\ pc = "enrich"
    /\ KeyMissing
    /\ final_items' = enrich_with(final_items, EmptyDict)
    /\ pc' = "write"
    /\ UNCHANGED <<runFrame, selVarsButTopK, naver_items, warned, written, fxVars>>

\* enrich_items lines 325-388: the one batch request answers
MainEnrichAnswer ==
    /\ entry = "main" /\ pc = "enrich"
    /\ ~KeyMissing
    /\ llmCalls' = llmCalls + 1
    /\ \E m \in RunEnrichMappings(Len(final_items)) :
           final_items' = enrich_with(final_items, m)
    /\ attempt' = 0
    /\ pc' = "write"
    /\ UNCHANGED <<enrichFrame, selVarsButTopK, naver_items, warned, written, requests, error>>

\* enrich_items lines 325-353: the batch request raises; retried
\* BATCH_RETRIES times (by default not at all), and after the last attempt
\* every item gets the fallback
MainEnrichRaise ==
    /\ entry = "main" /\ pc = "enrich"
    /\ ~KeyMissing
    /\ llmCalls' = llmCalls + 1
    /\ IF MayRetry(attempt, BATCH_RETRIES)
       THEN /\ attempt' = attempt + 1
            /\ UNCHANGED <<pc, final_items>>
       ELSE /\ attempt' = 0
            /\ final_items' = enrich_with(final_items, EmptyDict)
            /\ pc' = "write"
    /\ UNCHANGED <<enrichFrame, selVarsButTopK, naver_items, warned, written, requests, error>>

\* main lines 424-436: the outputs, the pages and the master store
MainWrite ==
    /\ entry = "main" /\ pc = "write"
    /\ written' = TRUE
    /\ pc' = "done"
    /\ UNCHANGED <<runFrame, selVarsButTopK, naver_items, final_items, warned, fxVars>>

NextRun ==
    \/ MainNaverSkipped \/ MainNaverCall \/ MainCollectGoogle
    \/ SelectNoKey \/ SelectByLlm \/ SelectExcept
    \/ MainMergeAndRank
    \/ MainEnrichNoKey \/ MainEnrichAnswer \/ MainEnrichRaise
    \/ MainWrite

SpecRun == InitRun /\ [][NextRun]_vars

\* ------------------------------------------------------------------------
\* Both per-provider selections: the Google selector and the Naver pipeline
\* ------------------------------------------------------------------------
SpecTopK == (InitSelect \/ InitNaver) /\ [][NextSelect \/ NextNaver]_vars

\* C4: whatever the input and whatever the classifier does (answers, raises,
\* no key), the selection the Naver pipeline returns and the selection the
\* Google selector returns have at most top_k items.
C4_TopKBound ==
    /\ (entry = "select" /\ pc = "returned") => Len(picked) <= top_k
    /\ (entry = "naver" /\ pc = "returned") =>
           /\ Len(picked_items) <= top_k
           /\ Len(picked_scores) = Len(picked_items)

\* the Naver pipeline returned after LLM calls, with more deduped items than
\* top_k, cut to exactly top_k
C4_Witness ==
    /\ entry = "naver" /\ pc = "returned"
    /\ gemini_key /\ llmCalls > 0
    /\ top_k >= 1 /\ Len(deduped) > top_k
    /\ Len(picked_items) = top_k

\* ------------------------------------------------------------------------
\* The final selection of a run
\* ------------------------------------------------------------------------
\* the caps the claim speaks of, at the largest values the specification
\* gives for them (per-entity 1-2, per-topic 2-3); the source reads no such
\* setting
DiversityCaps == [per_entity |-> 2, per_topic |-> 3]

\* main has its final selection
FinalSelection == entry = "main" /\ pc \in {"write", "done"}

\* the items of the final selection that name entity e
WithEntity(e) == {i \in 1..Len(final_items) : e \in Range(final_items[i].companies)}

\* the items of the final selection that carry topic tag c
WithTopic(c) == {i \in 1..Len(final_items) : final_items[i].category = c}

\* C6: in the final selection no entity is named by more items than the
\* per-entity cap and no topic tag is carried by more items than the
\* per-topic cap.
C6_DiversityCaps ==
    FinalSelection =>
        \A i \in 1..Len(final_items) :
            /\ \A e \in Range(final_items[i].companies) :
                   Cardinality(WithEntity(e)) <= DiversityCaps.per_entity
            /\ Cardinality(WithTopic(final_items[i].category)) <= DiversityCaps.per_topic

\* C7: main always goes on to the output-writing step: no step of a run
\* raises, also when the Naver credentials are set and collect_naver_items
\* calls the pipeline, so the run is never stopped before its outputs are
\* written; too few items only sets the warning.
C7_RunCompletes ==
    entry = "main" =>
        /\ error = "none" /\ pc # "raised"
        /\ pc = "done" => written

\* ------------------------------------------------------------------------
\* Both collectors: collect_naver_last24h (inside the pipeline) and
\* collect_from_rss
\* ------------------------------------------------------------------------
SpecCollectors == (InitNaver \/ InitRss) /\ [][NextNaver \/ NextRss]_vars

\* C8: a failed request (transport error or status >= 400) never raises past
\* the collector: collect_naver_last24h and collect_from_rss go on to return,
\* and what was collected from earlier pages is kept.
C8_FetchFailureContained ==
    entry \in {"naver", "rss"} =>
        /\ error = "none"
        /\ pc # "raised"

\* ------------------------------------------------------------------------
\* The stages that need credentials: main and the Naver pipeline
\* ------------------------------------------------------------------------
SpecStages == (InitRun \/ InitNaver) /\ [][NextRun \/ NextNaver]_vars

\* C9: without the Naver credentials collect_naver_items gives no items and
\* sends no request, and the run is not stopped; without the
\* Gemini key no LLM call is made and dedupe, importance scoring, the Google
\* selection and the enrichment give what their local fallbacks give; no
\* error is raised in either case.
C9_MissingCredentials ==
    /\ (entry = "main" /\ ~naver_creds) =>
           /\ requests = 0 /\ naver_items = <<>>
           /\ error = "none" /\ pc # "raised"
    /\ ~gemini_key => llmCalls = 0
    /\ (~gemini_key /\ entry = "naver" /\ pc \in {"score", "select", "returned"}) =>
           /\ deduped = dedupe_by_title_similarity(out, NoKeyThreshold).kept
           /\ error = "none"
    /\ (~gemini_key /\ entry = "naver" /\ pc \in {"select", "returned"}) =>
           scores = heuristic_importance_scores(deduped)
    /\ (~gemini_key /\ Selected /\ candidates # <<>>) =>
           /\ path = "no_key"
           /\ picked = select_fallback(candidates, top_k)
    /\ (~gemini_key /\ FinalSelection) =>
           \A i \in 1..Len(final_items) : final_items[i].summary_from = "fallback"

\* a run without credentials and without key that wrote its outputs, with
\* items from the feeds only
C9_Witness ==
    /\ entry = "main" /\ pc = "done"
    /\ ~naver_creds /\ ~gemini_key
    /\ requests = 0 /\ llmCalls = 0
    /\ Len(final_items) >= 2

\* C10: when the classifier gives no result (no key, or the call or its
\* output fails), every selected candidate has relevance 60 and the
\* importance the keyword heuristic computes from its own title.
C10_FallbackScores ==
    (Selected /\ path \in {"no_key", "except"}) =>
        \A i \in 1..Len(picked) :
            /\ picked[i].battery_relevance = DefaultRelevance
            /\ picked[i].monitoring_importance = heuristic_importance_score(picked[i].title)

\* ------------------------------------------------------------------------
\* Partial classifier results
\* ------------------------------------------------------------------------
\* the index of the candidate a picked item was made from (the candidates'
\* titles are distinct)
PickedIndex(p) ==
    CHOOSE i \in 0..(Len(candidates) - 1) : candidates[i + 1].title = picked[p].title

\* the indexes of the chunk the last call of _llm_score_chunk was made for
LastChunkIdxs ==
    {i \in (chunk_start - ChunkSize)..(chunk_start - 1) : 0 <= i /\ i < Len(deduped)}

\* the Google selector: returned scores unchanged, absent indexes by the fallback
GooglePartialResult ==
    (Selected /\ path = "llm") =>
        \A p \in 1..Len(picked) :
            IF PickedIndex(p) \in DOMAIN rel_by_i
            THEN /\ picked[p].battery_relevance = rel_by_i[PickedIndex(p)]
                 /\ picked[p].monitoring_importance = imp_by_i[PickedIndex(p)]
            ELSE /\ picked[p].battery_relevance = DefaultRelevance
                 /\ picked[p].monitoring_importance =
                        heuristic_importance_score(picked[p].title)

\* score_importance_by_llm: the same for the chunk just scored
NaverPartialResult ==
    (entry = "naver" /\ pc = "score" /\ mapping.ok) =>
        \A i \in LastChunkIdxs :
            scores[i + 1] = IF i \in DOMAIN mapping.scores THEN mapping.scores[i]
                            ELSE heuristic_importance_score(deduped[i + 1].title)

\* C11: for every index the classifier's response contains, the returned
\* scores are used unchanged, and a candidate whose index is absent gets the
\* heuristic fallback scores (the default relevance and the keyword
\* importance), in the Google selector and in score_importance_by_llm.
C11_PartialResult == GooglePartialResult /\ NaverPartialResult

\* ------------------------------------------------------------------------
\* Every retry loop around an external call: _fetch_url, the dedupe
\* decision, the importance chunk, the enrichment batch
\* ------------------------------------------------------------------------
SpecExternalCalls ==
    (InitRss \/ InitNaver \/ InitRun) /\ [][NextRss \/ NextNaver \/ NextRun]_vars

\* the number of failed attempts of the loop in progress is within its retries
RetryBound ==
    /\ entry = "rss" => attempt <= RssRetries
    /\ (entry = "naver" /\ pc = "dedupe") => attempt <= LLM_DEDUPE_RETRIES
    /\ (entry = "naver" /\ pc = "score") => attempt <= LLM_IMPORTANCE_RETRIES
    /\ (entry = "main" /\ pc = "enrich") => attempt <= BATCH_RETRIES

\* a step of a retry loop either is a failed attempt that has a retry left,
\* or leaves the loop: with the answer, or after the last failed attempt
\* with the fallback (the feed skipped, the item kept, the chunk scored by
\* the heuristic, the fallback summaries)
RetryStep ==
    /\ (entry = "rss" /\ pc = "fetch") =>
           \/ attempt < RssRetries /\ attempt' = attempt + 1 /\ pc' = "fetch"
           \/ /\ pc' = "returned"
              /\ rss_out' \in {<<>>, collect_from_rss(FeedOk(rss_entries), source_is_google_news)}
    /\ (entry = "naver" /\ pc = "dedupe" /\ llmCalls' # llmCalls) =>
           \/ attempt < LLM_DEDUPE_RETRIES /\ attempt' = attempt + 1 /\ di' = di
           \/ /\ attempt' = 0 /\ di' = di + 1
              /\ deduped' \in {deduped, Append(deduped, out[di])}
    /\ (entry = "naver" /\ pc = "score" /\ llmCalls' # llmCalls) =>
           \/ attempt < LLM_IMPORTANCE_RETRIES /\ attempt' = attempt + 1
              /\ chunk_start' = chunk_start
           \/ /\ attempt' = 0 /\ chunk_start' = chunk_start + ChunkSize
              /\ ~mapping'.ok => scores' = fill_heuristic(scores, deduped, ChunkIdxs)
    /\ (entry = "main" /\ pc = "enrich" /\ llmCalls' # llmCalls) =>
           \/ attempt < BATCH_RETRIES /\ attempt' = attempt + 1 /\ pc' = "enrich"
           \/ attempt' = 0 /\ pc' = "write"

\* C12: every retry loop around an external call makes at most its
\* configured retries + 1 attempts, stops at the first success, and after
\* the last failed attempt takes its fallback path.
C12_BoundedRetries == []RetryBound /\ [][RetryStep]_vars

\* the importance call has failed as often as it may, with one attempt left
C12_Witness ==
    /\ entry = "naver" /\ pc = "score"
    /\ attempt = LLM_IMPORTANCE_RETRIES
    /\ llmCalls >= LLM_IMPORTANCE_RETRIES

\* ------------------------------------------------------------------------
\* Links of one collection run
\* ------------------------------------------------------------------------
\* no two items of the list have the same normalized link
UniqueLinks(items) ==
    \A i, j \in 1..Len(items) :
        (i # j /\ items[i].link # NoUrl) =>
            normalize_url(items[i].link) # normalize_url(items[j].link)

\* collect_naver_last24h has returned
NaverCollected == entry = "naver" /\ pc \notin {"fetch", "raised"}

\* collect_google_candidates has returned (candidates is its result, cut to
\* GOOGLE_CANDIDATES)
GoogleCollected == entry = "main" /\ pc \notin {"naver", "google", "raised"}

\* collect_google_candidates over the RSS feeds
GoogleUniqueLinks == GoogleCollected => UniqueLinks(candidates)

\* collect_naver_last24h
NaverUniqueLinks == NaverCollected => UniqueLinks(out)

\* C13: in the list one collection run of either provider returns, no two
\* items have the same normalized link: of raw entries that normalize to the
\* same link only the first is kept.
C13_LinkUniqueness == NaverUniqueLinks /\ GoogleUniqueLinks

\* ------------------------------------------------------------------------
\* The recency window of collect_naver_last24h
\* ------------------------------------------------------------------------
\* the result set has at most max_fetch entries, all with a parsable
\* timestamp and with distinct non-empty links
WellFormedFeed ==
    /\ Len(feed) <= max_fetch
    /\ \A i \in 1..Len(feed) : feed[i].pub \in {"fresh", "old"} /\ feed[i].origin # NoUrl
    /\ \A i, j \in 1..Len(feed) : feed[i].origin = feed[j].origin => i = j

\* the entries within the window, in the order of the response
InWindow == SelectSeq(feed, LAMBDA e : e.pub = "fresh")

\* the collector returned exactly the in-window entries
ReturnsInWindow ==
    /\ Len(out) = Len(InWindow)
    /\ \A k \in 1..Len(out) : out[k].link = InWindow[k].origin /\ out[k].pub = "fresh"

\* the response is newest first: no in-window entry after an older one
NewestFirst ==
    \A i, j \in 1..Len(feed) : (i < j /\ feed[i].pub = "old") => feed[j].pub = "old"

\* C14 as stated: from a result set of N <= max_fetch entries with parsable
\* timestamps and distinct non-empty links, M of them older than the window
\* in any positions, the collector returns exactly the N - M in-window
\* entries and none that is older.
C14_RecencyFilter == (NaverCollected /\ WellFormedFeed) => ReturnsInWindow

\* C14, amended: the same for a response that is newest first (the older
\* entries come after all in-window entries) and within the entries the
\* paging can reach.
C14_RecencyFilterNewestFirst ==
    (NaverCollected /\ WellFormedFeed /\ NewestFirst /\ Len(feed) <= MaxStart) =>
        ReturnsInWindow

\* a response of two pages, its last entry older than the window
C14_Witness ==
    /\ NaverCollected /\ WellFormedFeed /\ NewestFirst
    /\ start > 1
    /\ Len(InWindow) >= 2 /\ Len(feed) > Len(InWindow)
    /\ Len(out) = Len(InWindow)

\* ------------------------------------------------------------------------
\* Malformed records
\* ------------------------------------------------------------------------
\* an API item with a parsable pubDate and a link
WellFormedItem(e) == e.pub # "bad" /\ e.origin # NoUrl

\* a feed entry with a parsable date and a link
WellFormedEntry(e) == e.date # "bad" /\ e.link # NoUrl

\* collect_from_rss has returned
RssReturned == entry = "rss" /\ pc = "returned"

\* the list is returned as the collector computes it from the whole response
NaverCollectsFeed == NaverCollected => out = collect_naver_last24h(feed, max_fetch)

\* collect_naver_last24h: no malformed record in the output, which is what
\* the response without the malformed records gives (for a response that is
\* newest first)
NaverDropsMalformed ==
    (NaverCollected /\ NewestFirst) =>
        /\ \A k \in 1..Len(out) : out[k].pub # "bad" /\ out[k].link # NoUrl
        /\ out = collect_naver_last24h(SelectSeq(feed, WellFormedItem), max_fetch)

\* collect_from_rss: the same (the output is empty when the fetch failed)
RssDropsMalformed ==
    RssReturned =>
        /\ \A k \in 1..Len(rss_out) : rss_out[k].link # NoUrl
        /\ rss_out \in {<<>>, collect_from_rss(FeedOk(SelectSeq(rss_entries, WellFormedEntry)),
                                               source_is_google_news)}

\* C15: an entry whose publish time cannot be parsed or whose link is empty
\* is excluded from the collector's output (Naver and RSS), and dropping it
\* changes neither the inclusion nor the relative order of the other entries.
C15_MalformedDropped == NaverDropsMalformed /\ RssDropsMalformed

\* ------------------------------------------------------------------------
\* The pure functions as entry points: the two title similarities and
\* utils.normalize_url
\* ------------------------------------------------------------------------
\* titles: empty, blank, empty once normalised, and headlines
TitlePool ==
    {<<>>, <<" ">>, <<"!">>, <<"a", "b">>, <<"A", "B", "!">>, <<"a", "b", "a">>,
     <<"b", "c", "a">>, TInvest, TInvestBang, TPlain}

\* keys of query pairs as urls write them
QueryKeys ==
    {<<"i", "d">>, <<"u", "t", "m", "_", "x">>, <<"U", "T", "M", "_", "X">>,
     <<"f", "b", "c", "l", "i", "d">>, <<"%75", "t", "m", "_", "x">>,
     <<"+", "u", "t", "m", "_", "x">>, <<"a", "%2B", "b">>, <<"a", " ", "b">>,
     <<"%25", "7", "5", "t", "m">>}

MaxQuery == 2

UrlPool == {NoUrl} \cup {Url(b, q) : b \in {"u1", "[u1"}, q \in SeqsUpTo(QueryKeys, MaxQuery)}

SimilarityFns == {"_title_similarity", "title_similarity"}

SimilarityCalls ==
    {[fn |-> f, a |-> x, b |-> y] : f \in SimilarityFns, x \in TitlePool, y \in TitlePool}

NormalizeCalls == {[fn |-> "normalize_url", a |-> u, b |-> NoUrl] : u \in UrlPool}

\* ten high keywords in one title
THeavy ==
    <<"k_tu", "k_ja", " ", "k_jo", "k_wo_n", " ", "k_eo_g", "k_wo_n", " ", "k_su", "k_ju", " ",
      "k_go_ng", "k_geu_b", " ", "k_gye", "k_ya_g", " ", "k_hyeo_b", "k_ya_g", " ",
      "M", "O", "U", " ", "d", "e", "a", "l", " ", "k_jeu_ng", "k_seo_l">>

\* moderate keywords only: four of them, two overlapping
TModerate ==
    <<"k_pa", "k_teu", "k_neo", "k_si_b", " ", "k_chu_l", "k_si", " ", "k_gae", "k_ba_l">>

HeuristicTitles == NewsTitles \cup {THeavy, TModerate, <<>>}

\* heuristic_importance_scores on a list of two items
HeuristicCalls ==
    {[fn |-> "heuristic_importance_scores", a |-> x, b |-> y] :
        x \in HeuristicTitles, y \in HeuristicTitles}

\* company names as lists carry them
CoLG == <<"L", "G">>

CoSK == <<"S", "K">>

CoCATL == <<"C", "A", "T", "L">>

CoBYD == <<"B", "Y", "D">>

\* items enrich_items may be given: with a company the rules also find, with a
\* two-letter title, without title and with more than three companies
EnrichPool ==
    {[title |-> TInvestBang, description |-> <<>>, companies |-> <<CoSK, CoLG>>],
     [title |-> TPlain,      description |-> <<>>, companies |-> <<>>],
     [title |-> <<>>,        description |-> <<>>,
      companies |-> <<CoCATL, CoCATL, CoBYD, CoSK, CoLG>>]}

\* length of the list given to enrich_items
MaxEnrich == 2

\* what the batch response may hold for one index: three sentences and five
\* names (one twice, once with a trailing comma); two sentences; four
\* sentences, a blank one among the first three
EnrichAnswers ==
    {[sents |-> << <<"x">>, <<"y", ".">>, <<" ", "z", "!">> >>,
      companies |-> <<CoLG \o <<",">>, CoLG, CoCATL, CoBYD, CoSK>>],
     [sents |-> << <<"x">>, <<"y">> >>, companies |-> <<>>],
     [sents |-> << <<"x">>, <<" ">>, <<"y">>, <<"z">> >>, companies |-> <<CoCATL>>]}

NoAnswer == [sents |-> <<>>, companies |-> << <<"-">> >>]

\* the mapping built from a parsed response for n items: any index may be
\* missing, and index n, which is no item's, may be there
EnrichMappings(n) ==
    {[i \in {j \in 0..n : f[j] # NoAnswer} |-> f[i]] :
        f \in [0..n -> EnrichAnswers \cup {NoAnswer}]}

\* the outcome of the batch request: it raises, or it is parsed
EnrichOutcomes(n) ==
    {[raised |-> TRUE, mapping |-> EmptyDict]}
    \cup {[raised |-> FALSE, mapping |-> m] : m \in EnrichMappings(n)}

\* enrich_items(items, max_items), with the outcome the request will have
EnrichCalls ==
    {[fn |-> "enrich_items", a |-> items, b |-> [max_items |-> k, outcome |-> o]] :
        items \in {x \in SeqsUpTo(EnrichPool, MaxEnrich) : Len(x) = MaxEnrich},
        k \in 0..(MaxEnrich + 1), o \in EnrichOutcomes(MaxEnrich)}
    \cup {[fn |-> "enrich_items", a |-> items, b |-> [max_items |-> k, outcome |-> o]] :
        items \in SeqsUpTo(EnrichPool, MaxEnrich - 1),
        k \in 0..MaxEnrich, o \in EnrichOutcomes(0)}

\* ------------------------------------------------------------------------
\* datastore.upsert_master_csv / upsert_master_json.  A master file is the
\* list of its rows in file order; a file that does not exist has none.
\* ------------------------------------------------------------------------
\* the strings the sort keys are made of, in str order
KnownStrings == <<"", "d1", "d2", "s1", "t1", "t2">>

StrRank(str) == CHOOSE i \in 1..Len(KnownStrings) : KnownStrings[i] = str

\* lines 13-16: sha1 of the stripped link; the digest stands for what it is
\* taken of (sha1 is taken as collision free)
_uid_from_item(it) == Strip(it.link)

\* str(it.get("tier", ""))
TierStr(tier) == IF tier = 1 THEN "1" ELSE IF tier = 2 THEN "2" ELSE "3"

RECURSIVE JoinCompanies(_)
\* "; ".join(comps)
JoinCompanies(comps) ==
    IF comps = <<>> THEN <<>>
    ELSE IF Len(comps) = 1 THEN comps
    ELSE <<Head(comps), "; ">> \o JoinCompanies(Tail(comps))

\* lines 43-60: the row of the csv file for an item
csv_row(it) ==
    LET summ == IF it.summary_3_sentences = <<>> THEN <<"", "", "">>
                ELSE it.summary_3_sentences
    IN  [uid |-> _uid_from_item(it), date |-> it.published_at, title |-> it.title,
         source |-> it.source, link |-> it.link, tier |-> TierStr(it.tier),
         companies |-> JoinCompanies(it.companies),
         summary_1 |-> summ[1], summary_2 |-> summ[2], summary_3 |-> summ[3]]

\* lines 93-95: the row of the json file for an item
json_row(it) == SetField(it, "uid", _uid_from_item(it))

\* `existing[uid] = row` writing a second row for a uid that is there
put_row_append(rows, row) == Append(rows, row)

\* `existing[uid] = row`: the dict keeps the place of a uid that is there
put_row(rows, row) ==
    LET at == {p \in 1..Len(rows) : rows[p].uid = row.uid}
    IN  IF at = {} THEN Append(rows, row) ELSE [rows EXCEPT ![MinOf(at)] = row]

RECURSIVE put_rows(_, _, _)
put_rows(rows, new, i) ==
    IF i > Len(new) THEN rows ELSE put_rows(put_row(rows, new[i]), new, i + 1)

\* lines 63-64: (date, source, title)
csv_key(x) == <<StrRank(x.date), StrRank(x.source), StrRank(x.title)>>

\* line 98: (published_at, source, title)
json_key(x) == <<StrRank(x.published_at), StrRank(x.source), StrRank(x.title)>>

\* lines 19-72: load, merge, sort with reverse=True, write
upsert_master_csv(file, items) ==
    StableSort(put_rows(put_rows(<<>>, file, 1),
                        [p \in 1..Len(items) |-> csv_row(items[p])], 1),
               LAMBDA x, y : LexLess(csv_key(y), csv_key(x)))

\* lines 75-102
upsert_master_json(file, items) ==
    StableSort(put_rows(put_rows(<<>>, file, 1),
                        [p \in 1..Len(items) |-> json_row(items[p])], 1),
               LAMBDA x, y : LexLess(json_key(y), json_key(x)))

\* items of a batch: two with one link and different values, one whose link
\* differs from theirs in a leading blank, one with another link and the
\* sort key of the first
StorePool ==
    {[link |-> <<"u", "1">>, published_at |-> "d2", source |-> "s1", title |-> "t1",
      tier |-> 1, companies |-> <<"LG", "SK">>, summary_3_sentences |-> <<"x.", "y.", "z.">>],
     [link |-> <<"u", "1">>, published_at |-> "d1", source |-> "s1", title |-> "t2",
      tier |-> 2, companies |-> <<>>, summary_3_sentences |-> <<>>],
     [link |-> <<" ", "u", "1">>, published_at |-> "d2", source |-> "s1", title |-> "t2",
      tier |-> 1, companies |-> <<"LG">>, summary_3_sentences |-> <<"x.", "y.", "z.">>],
     [link |-> <<"u", "2">>, published_at |-> "d2", source |-> "s1", title |-> "t1",
      tier |-> 3, companies |-> <<>>, summary_3_sentences |-> <<"x.", "y.", "z.">>]}

\* length of a batch
MaxBatch == 2

Batches == SeqsUpTo(StorePool, MaxBatch)

\* the calls on one master file start without the file: a is the file's
\* format, b the batch of the last call
UpsertCalls == {[fn |-> "upsert_master", a |-> fmt, b |-> <<>>] : fmt \in {"csv", "json"}}

InitUtil ==
    /\ entry = "util"
    /\ pc = "start"
    /\ \/ /\ \/ fn_args \in SimilarityCalls
              \/ fn_args \in NormalizeCalls
              \/ fn_args \in HeuristicCalls
          /\ gemini_key = FALSE
       \/ /\ fn_args \in EnrichCalls
          /\ gemini_key \in BOOLEAN
       \/ /\ fn_args \in UpsertCalls
          /\ gemini_key = FALSE
    /\ fn_result = <<>>
    /\ IdleDedupe
    /\ IdleSelect
    /\ IdleNaver
    /\ IdleRss
    /\ IdleRun
    /\ NoEffects

utilFrame == <<entry, fn_args, dedupeVars, gemini_key, selVars, naverVars, rssVars, runVars,
               fxVars>>

\* naver_collector._title_similarity(a, b)
CallNaverTitleSimilarity ==
    /\ entry = "util" /\ pc = "start"
    /\ fn_args.fn = "_title_similarity"
    /\ fn_result' = _title_similarity(fn_args.a, fn_args.b)
    /\ pc' = "returned"
    /\ UNCHANGED utilFrame

\* dedupe.title_similarity(a, b)
CallDedupeTitleSimilarity ==
    /\ entry = "util" /\ pc = "start"
    /\ fn_args.fn = "title_similarity"
    /\ fn_result' = title_similarity(fn_args.a, fn_args.b)
    /\ pc' = "returned"
    /\ UNCHANGED utilFrame

\* utils.normalize_url(url)
CallNormalizeUrl ==
    /\ entry = "util" /\ pc = "start"
    /\ fn_args.fn = "normalize_url"
    /\ fn_result' = normalize_url(fn_args.a)
    /\ pc' = "returned"
    /\ UNCHANGED utilFrame

\* naver_collector.heuristic_importance_scores(items)
CallHeuristicImportance ==
    /\ entry = "util" /\ pc = "start"
    /\ fn_args.fn = "heuristic_importance_scores"
    /\ fn_result' = heuristic_importance_scores(<<[title |-> fn_args.a], [title |-> fn_args.b]>>)
    /\ pc' = "returned"
    /\ UNCHANGED utilFrame

\* llm_enrich_gemini.enrich_items(items, max_items) without the API key
\* (lines 288-300)
CallEnrichItemsNoKey ==
    /\ entry = "util" /\ pc = "start"
    /\ fn_args.fn = "enrich_items"
    /\ KeyMissing
    /\ fn_result' = enrich_items(fn_args.a, fn_args.b.max_items, EmptyDict)
    /\ pc' = "returned"
    /\ UNCHANGED utilFrame

\* enrich_items with the key: the one request of the batch (BATCH_RETRIES is
\* 0) is answered or raises, and the results are applied (lines 302-400)
CallEnrichItems ==
    /\ entry = "util" /\ pc = "start"
    /\ fn_args.fn = "enrich_items"
    /\ ~KeyMissing
    /\ fn_result' = enrich_items(fn_args.a, fn_args.b.max_items, fn_args.b.outcome.mapping)
    /\ llmCalls' = llmCalls + 1
    /\ pc' = "returned"
    /\ UNCHANGED <<entry, fn_args, dedupeVars, gemini_key, selVars, naverVars, rssVars,
                   runVars, requests, error>>

\* datastore.upsert_master_csv(data_dir, items): fn_args holds the call,
\* fn_result the rows of news_master.csv
CallUpsertMasterCsv ==
    /\ entry = "util" /\ fn_args.fn = "upsert_master" /\ fn_args.a = "csv"
    /\ \E items \in Batches :
           /\ fn_args' = [fn_args EXCEPT !.b = items]
           /\ fn_result' = upsert_master_csv(fn_result, items)
    /\ pc' = "returned"
    /\ UNCHANGED <<entry, dedupeVars, gemini_key, selVars, naverVars, rssVars, runVars,
                   fxVars>>

\* datastore.upsert_master_json(data_dir, items), on news_master.json
CallUpsertMasterJson ==
    /\ entry = "util" /\ fn_args.fn = "upsert_master" /\ fn_args.a = "json"
    /\ \E items \in Batches :
           /\ fn_args' = [fn_args EXCEPT !.b = items]
           /\ fn_result' = upsert_master_json(fn_result, items)
    /\ pc' = "returned"
    /\ UNCHANGED <<entry, dedupeVars, gemini_key, selVars, naverVars, rssVars, runVars,
                   fxVars>>

NextUtil ==
    \/ CallNaverTitleSimilarity \/ CallDedupeTitleSimilarity \/ CallNormalizeUrl
    \/ CallHeuristicImportance
    \/ CallEnrichItemsNoKey \/ CallEnrichItems
    \/ CallUpsertMasterCsv \/ CallUpsertMasterJson

SpecUtil == InitUtil /\ [][NextUtil]_vars

\* a similarity was computed
SimilarityReturned == entry = "util" /\ pc = "returned" /\ fn_args.fn \in SimilarityFns

\* the called similarity, on other arguments
SimilarityOf(a, b) ==
    IF fn_args.fn = "_title_similarity" THEN _title_similarity(a, b) ELSE title_similarity(a, b)

\* the title as the called similarity compares it
NormalizedOf(a) ==
    IF fn_args.fn = "_title_similarity" THEN _normalize_title_for_similarity(a) ELSE Lower(a)

IsBlank(t) == \A i \in 1..Len(t) : IsSpace(t[i])

\* equality of two ratios
RatioEq(r, q) == r[1] * q[2] = q[1] * r[2]

\* C16: title similarity, in both implementations, is symmetric, lies in
\* [0,1], is 1 for a non-empty normalized title compared with itself, and is
\* 0 whenever either title is empty or blank after normalization.
C16_SimilarityLaws ==
    SimilarityReturned =>
        /\ RatioEq(fn_result, SimilarityOf(fn_args.b, fn_args.a))
        /\ 0 <= fn_result[1] /\ fn_result[1] <= fn_result[2]
        /\ (fn_args.a = fn_args.b /\ ~IsBlank(NormalizedOf(fn_args.a))) =>
               RatioEq(fn_result, <<1, 1>>)
        /\ (IsBlank(NormalizedOf(fn_args.a)) \/ IsBlank(NormalizedOf(fn_args.b))) =>
               fn_result[1] = 0

\* C16 without the symmetry
SimilarityBoundsAndEnds ==
    SimilarityReturned =>
        /\ 0 <= fn_result[1] /\ fn_result[1] <= fn_result[2]
        /\ (fn_args.a = fn_args.b /\ ~IsBlank(NormalizedOf(fn_args.a))) =>
               RatioEq(fn_result, <<1, 1>>)
        /\ (IsBlank(NormalizedOf(fn_args.a)) \/ IsBlank(NormalizedOf(fn_args.b))) =>
               fn_result[1] = 0

\* normalize_url was called on a url
UrlNormalized == entry = "util" /\ pc = "returned" /\ fn_args.fn = "normalize_url"

\* no tracking key is left in the result, and the other keys of the argument
\* are there in their order
TrackingRemoved ==
    /\ \A i \in 1..Len(fn_result.query) :
           /\ ~StartsWith(Lower(fn_result.query[i]), <<"u", "t", "m", "_">>)
           /\ Lower(fn_result.query[i]) \notin TrackingKeys
           /\ ~StartsWith(Lower(parse_qsl(fn_result.query)[i]), <<"u", "t", "m", "_">>)
           /\ Lower(parse_qsl(fn_result.query)[i]) \notin TrackingKeys
    /\ parse_qsl(fn_result.query) =
           SelectSeq(parse_qsl(fn_args.a.query),
                     LAMBDA k : /\ ~StartsWith(Lower(k), <<"u", "t", "m", "_">>)
                                /\ Lower(k) \notin TrackingKeys)
    /\ fn_result.base = fn_args.a.base

\* C17 as stated: normalize_url is idempotent, its result has no query key
\* that starts with utm_ and none of fbclid, gclid, mc_cid, mc_eid, and all
\* other query pairs keep their order, for every url.
C17_NormalizeIdempotent ==
    UrlNormalized => (normalize_url(fn_result) = fn_result /\ TrackingRemoved)

\* C17, amended: normalize_url is idempotent for every url; the result of a
\* url that urlparse accepts has no tracking key and keeps the other pairs in
\* their order, and a url that urlparse rejects is returned as it came.
C17_NormalizeIdempotentParsed ==
    UrlNormalized =>
        /\ normalize_url(fn_result) = fn_result
        /\ ~UrlparseRaises(fn_args.a) => TrackingRemoved
        /\ UrlparseRaises(fn_args.a) => fn_result = fn_args.a

\* a url that loses an escaped tracking key, keeps two other pairs in their
\* order and is written differently once normalized
C17_Witness ==
    /\ UrlNormalized
    /\ fn_args.a.base = "u1"
    /\ fn_args.a.query = << <<"a", " ", "b">>, <<"%75", "t", "m", "_", "x">> >>
    /\ fn_result.query = << <<"a", "+", "b">> >>

\* ------------------------------------------------------------------------
\* Event groups and the order of the selection
\* ------------------------------------------------------------------------
\* the selector returned what it made of a classifier response
KeyedSelection == Selected /\ path = "llm"

CandidateIdxs == 0..(Len(candidates) - 1)

\* the candidates with the event key of candidate i
EventGroup(i) == {j \in CandidateIdxs : CandidateKey(ek_by_i, j) = CandidateKey(ek_by_i, i)}

\* the key the representative and the order are claimed to go by: importance,
\* then relevance, then the earlier input position
ImportanceKey(i) == <<Get(imp_by_i, i, 0), Get(rel_by_i, i, 0), -i>>

\* every group has exactly one representative, one of its members
OneRepPerGroup ==
    KeyedSelection =>
        /\ \A p \in 1..Len(reps) : reps[p] \in CandidateIdxs
        /\ \A i \in CandidateIdxs :
               Cardinality({p \in 1..Len(reps) : reps[p] \in EventGroup(i)}) = 1

RepByImportance ==
    KeyedSelection =>
        \A p \in 1..Len(reps) :
            \A j \in EventGroup(reps[p]) \ {reps[p]} :
                LexLess(ImportanceKey(j), ImportanceKey(reps[p]))

\* C18: candidates with the same eventKey form one group with exactly one
\* representative, a member of the group, and the representative is the
\* member with the highest importance, ties broken by the highest relevance
\* and then by the lowest rank.
C18_GroupRepresentative == OneRepPerGroup /\ RepByImportance

\* the representatives the selection is made from
Eligible == apply_relevance_min(reps, rel_by_i)

PickedIdxs == {PickedIndex(p) : p \in 1..Len(picked)}

\* run.py: the picked items are the first top_k of the eligible
\* representatives in the order importance, relevance, rank
GoogleRanked ==
    KeyedSelection =>
        /\ Len(picked) = (IF top_k < Len(Eligible) THEN top_k ELSE Len(Eligible))
        /\ \A p \in 1..Len(picked) : \E q \in 1..Len(Eligible) : Eligible[q] = PickedIndex(p)
        /\ \A p, q \in 1..Len(picked) :
               p < q => LexLess(ImportanceKey(PickedIndex(q)), ImportanceKey(PickedIndex(p)))
        /\ \A q \in 1..Len(Eligible) :
               Eligible[q] \notin PickedIdxs =>
                   \A p \in 1..Len(picked) :
                       LexLess(ImportanceKey(Eligible[q]), ImportanceKey(PickedIndex(p)))

\* position in deduped of a picked Naver item (ranks are distinct)
NaverPickedPos(p) == CHOOSE i \in 1..Len(deduped) : deduped[i].rank = picked_items[p].rank

\* the Naver order: importance score, then rank (there is no relevance score)
NaverKey(i) == <<scores[i], -deduped[i].rank>>

\* naver_collector.py: the picked items are the first top_k of the deduped
\* items in the order importance, rank
NaverRanked ==
    (entry = "naver" /\ pc = "returned") =>
        /\ Len(picked_items) = (IF top_k < Len(deduped) THEN top_k ELSE Len(deduped))
        /\ \A p \in 1..Len(picked_items) :
               /\ \E i \in 1..Len(deduped) : deduped[i] = picked_items[p]
               /\ picked_scores[p] = scores[NaverPickedPos(p)]
        /\ \A p, q \in 1..Len(picked_items) :
               p < q => LexLess(NaverKey(NaverPickedPos(q)), NaverKey(NaverPickedPos(p)))
        /\ \A i \in 1..Len(deduped) :
               (\A p \in 1..Len(picked_items) : NaverPickedPos(p) # i) =>
                   \A p \in 1..Len(picked_items) :
                       LexLess(NaverKey(i), NaverKey(NaverPickedPos(p)))

\* C19: the selected representatives are ordered by importance descending,
\* then relevance descending, then rank ascending, and the selection is the
\* top_k prefix of that order: no unselected eligible candidate precedes a
\* selected one under this key.
C19_RankingOrder == GoogleRanked /\ NaverRanked

\* ------------------------------------------------------------------------
\* Quotas of the two providers
\* ------------------------------------------------------------------------
\* the Google candidates that are eligible when the classifier gave no
\* result: all of them, with the fixed scores, less the duplicates the global
\* dedupe of main removes
DistinctEligible == merge_dedupe(<<>>, select_fallback(candidates, Len(candidates)))

\* C20: when one provider delivers fewer items than its quota and the other
\* has eligible candidates beyond its own quota, the surplus fills the gap:
\* the final list has min(MAX_ITEMS, distinct eligible candidates of both
\* providers) items.  Stated for the runs in which Naver delivers nothing (no
\* credentials) and every Google candidate is eligible (no classifier result).
C20_Backfill ==
    (FinalSelection /\ ~naver_creds /\ path \in {"none", "no_key", "except"}) =>
        Len(final_items) =
            (IF max_items < Len(DistinctEligible) THEN max_items ELSE Len(DistinctEligible))

\* the same count with each provider held to its own quota
QuotaOnly ==
    (FinalSelection /\ ~naver_creds /\ path \in {"none", "no_key", "except"}) =>
        Len(final_items) <= (IF top_k < max_items THEN top_k ELSE max_items)

\* ------------------------------------------------------------------------
\* The merged list of main
\* ------------------------------------------------------------------------
\* C21: after the Naver and Google picks are merged and passed through the
\* global dedupe, no two items of the final list have a title similarity at
\* or above the global threshold.
C21_CrossProviderDedupe ==
    FinalSelection =>
        \A i, j \in 1..Len(final_items) :
            i # j => ~IsDup(title_similarity(final_items[i].title, final_items[j].title),
                            DedupeThreshold)

\* what dedupe_items does give: of two items of the final list, the one
\* merged later was below the threshold against the other as second argument
OneDirectionBelow ==
    FinalSelection =>
        \A i, j \in 1..Len(final_items) :
            i # j =>
                \/ ~IsDup(title_similarity(final_items[i].title, final_items[j].title),
                          DedupeThreshold)
                \/ ~IsDup(title_similarity(final_items[j].title, final_items[i].title),
                          DedupeThreshold)

\* ------------------------------------------------------------------------
\* The list main hands to enrich_items
\* ------------------------------------------------------------------------
\* main is about to call enrich_items(items, max_items=len(items))
AtEnrichment == entry = "main" /\ pc = "enrich"

\* the merged, deduped and tagged items, before the sort and the cut
MergedTagged == tag_all(merge_dedupe(naver_items, picked))

\* source tier, then monitor score from high to low
TierScoreKey(x) == <<x.tier, -x.monitor_score>>

\* the merged items that are not in the list
DroppedItems == {d \in Range(MergedTagged) : d \notin Range(final_items)}

SortedAndCut ==
    AtEnrichment =>
        /\ Len(final_items) <= max_items
        /\ Len(final_items) =
               (IF max_items < Len(MergedTagged) THEN max_items ELSE Len(MergedTagged))
        /\ Range(final_items) \subseteq Range(MergedTagged)
        /\ \A i, j \in 1..Len(final_items) :
               i < j => ~LexLess(TierScoreKey(final_items[j]), TierScoreKey(final_items[i]))
        /\ \A d \in DroppedItems :
               \A i \in 1..Len(final_items) :
                   ~LexLess(TierScoreKey(d), TierScoreKey(final_items[i]))

\* a request of the enrichment is made at the enrichment step only, on the
\* list as it was cut, and the enrichment leaves the list's length alone
EnrichAfterCut ==
    (entry = "main" /\ (llmCalls' # llmCalls \/ pc' = "write")
                    /\ pc \notin {"select", "google"}) =>
        /\ pc = "enrich"
        /\ Len(final_items) <= max_items
        /\ Len(final_items') = Len(final_items)

\* C22: the list handed to enrichment has at most MAX_ITEMS items, is sorted
\* by source tier ascending and then by monitor score descending, and is a
\* prefix of that order: no dropped item has a strictly better (tier, score)
\* key than a retained one; enrichment is invoked only after the truncation.
C22_SortedTruncated == []SortedAndCut /\ [][EnrichAfterCut]_vars

\* two items of the first tier were retained, in another order than they
\* were merged in, and an item of a lower tier was dropped
C22_Witness ==
    /\ AtEnrichment
    /\ Len(final_items) = 2 /\ Len(MergedTagged) = 3
    /\ final_items[1] = MergedTagged[2]
    /\ final_items[1].monitor_score > final_items[2].monitor_score
    /\ \E d \in DroppedItems : d.tier > final_items[2].tier

\* ------------------------------------------------------------------------
\* Without the classifier
\* ------------------------------------------------------------------------
\* the Naver pipeline got past the grouping step without an API key
GroupedWithoutKey == ~gemini_key /\ entry = "naver" /\ pc \in {"score", "select", "returned"}

\* the results of the two steps without the key
FallbackResults ==
    /\ (GroupedWithoutKey /\ out # <<>>) =>
           /\ deduped # <<>>
           /\ deduped[1] = out[1]
    /\ (GroupedWithoutKey /\ pc # "score") => Len(scores) = Len(deduped)
    /\ (GroupedWithoutKey /\ pc = "returned" /\ out # <<>> /\ top_k >= 1) =>
           /\ picked_items # <<>>
           /\ Len(picked_scores) = Len(picked_items)
    /\ (~gemini_key /\ entry = "select" /\ pc = "returned"
                    /\ candidates # <<>> /\ top_k >= 1) =>
           /\ picked # <<>>
           /\ picked[1].title = candidates[1].title

\* a step of grouping, scoring or selection without the key raises nothing
\* and calls no classifier
FallbackStep ==
    (~gemini_key /\ \/ entry = "naver" /\ pc \in {"dedupe", "score", "select"}
                    \/ entry = "select" /\ pc = "start") =>
        /\ pc' # "raised"
        /\ error' = "none"
        /\ llmCalls' = llmCalls

\* C23: with the classifier unavailable (no API key) and top_k >= 1, for
\* every non-empty candidate list the grouping step and the selection step
\* return a non-empty result without raising.
C23_FallbackAvailable == []FallbackResults /\ [][FallbackStep]_vars

\* without the key, three collected items were grouped into fewer and a
\* selection was returned
C23_Witness ==
    /\ GroupedWithoutKey /\ pc = "returned"
    /\ Len(out) = 3 /\ Len(deduped) < Len(out)
    /\ top_k >= 1 /\ picked_items # <<>>

\* ------------------------------------------------------------------------
\* The keyword heuristic
\* ------------------------------------------------------------------------
HeuristicScored ==
    entry = "util" /\ pc = "returned" /\ fn_args.fn = "heuristic_importance_scores"

HighHits(title) == KeywordHits(HighKeywords, Lower(title))

MidHits(title) == KeywordHits(MidKeywords, Lower(title))

\* base, weight per high keyword, weight per moderate keyword, clamp
WeightedSum(title) == 10 + 10 * HighHits(title) + 4 * MidHits(title)

\* C24: for every title the score is the base plus a fixed weight per
\* high-impact keyword hit plus a smaller weight per moderate-impact hit,
\* clamped so that it lies in [0,100]; a title with at least one high-impact
\* keyword scores strictly higher than a neutral title (one with no keyword
\* of either list).
C24_HeuristicImportance ==
    HeuristicScored =>
        /\ Len(fn_result) = 2
        /\ \A i \in 1..2 :
               \A t \in {IF i = 1 THEN fn_args.a ELSE fn_args.b} :
                   /\ 0 <= fn_result[i] /\ fn_result[i] <= 100
                   /\ fn_result[i] = (IF WeightedSum(t) > 100 THEN 100 ELSE WeightedSum(t))
        /\ (HighHits(fn_args.a) >= 1 /\ HighHits(fn_args.b) = 0 /\ MidHits(fn_args.b) = 0) =>
               fn_result[1] > fn_result[2]

\* a title whose keywords add up to more than 100 next to a neutral title
C24_Witness ==
    /\ HeuristicScored
    /\ WeightedSum(fn_args.a) > 100 /\ fn_result[1] = 100
    /\ HighHits(fn_args.b) = 0 /\ MidHits(fn_args.b) = 0 /\ fn_result[2] = 10

\* C24 with "neutral" read as "no high-impact keyword": moderate keywords
\* may add up to more than one high-impact keyword gives
HighBeatsModerate ==
    HeuristicScored =>
        ((HighHits(fn_args.a) >= 1 /\ HighHits(fn_args.b) = 0) => fn_result[1] > fn_result[2])

\* ------------------------------------------------------------------------
\* enrich_items
\* ------------------------------------------------------------------------
EnrichReturned == entry = "util" /\ pc = "returned" /\ fn_args.fn = "enrich_items"

\* the mapping the results were applied from
AppliedMapping == IF gemini_key THEN fn_args.b.outcome.mapping ELSE EmptyDict

\* number of items the enrichment is asked for
EnrichN ==
    IF Len(fn_args.a) < fn_args.b.max_items THEN Len(fn_args.a) ELSE fn_args.b.max_items

\* the item has a usable entry: it is in the mapping with three non-blank
\* sentences among the first three
HasLlmSummary(p) ==
    /\ (p - 1) \in DOMAIN AppliedMapping
    /\ \A k \in 1..3 : /\ k <= Len(AppliedMapping[p - 1].sents)
                        /\ Strip(AppliedMapping[p - 1].sents[k]) # <<>>

\* C25 (as amended): whether the batch call succeeds, raises, or returns
\* entries for only some indices (or for indices out of range), enrich_items
\* returns a list of the length and order of its input in which each of the
\* first min(len, max_items) items has a summary of exactly 3 entries and at
\* most 3 distinct companies; the entries of an item with a usable LLM entry
\* are non-blank sentences, an item without one has the entries of the local
\* fallback, which may be empty strings.
C25_EnrichNeverFails ==
    EnrichReturned =>
        /\ error = "none"
        /\ Len(fn_result) = Len(fn_args.a)
        /\ \A p \in 1..Len(fn_result) :
               /\ fn_result[p].title = fn_args.a[p].title
               /\ fn_result[p].description = fn_args.a[p].description
        /\ \A p \in 1..EnrichN :
               /\ Len(fn_result[p].summary_3_sentences) = 3
               /\ Len(fn_result[p].companies) <= 3
               /\ \A x, y \in 1..Len(fn_result[p].companies) :
                      x # y => fn_result[p].companies[x] # fn_result[p].companies[y]
               /\ HasLlmSummary(p) =>
                      /\ fn_result[p].summary_from = "llm"
                      /\ \A k \in 1..3 : Strip(fn_result[p].summary_3_sentences[k]) # <<>>
               /\ ~HasLlmSummary(p) =>
                      fn_result[p].summary_3_sentences =
                          fallback_summary_3_sentences_from_description(fn_args.a[p].title,
                                                                        fn_args.a[p].description)
               /\ (p - 1) \notin DOMAIN AppliedMapping =>
                      \A x \in 1..Len(fn_result[p].companies) :
                          \/ fn_result[p].companies[x] \in Range(fn_args.a[p].companies)
                          \/ fn_result[p].companies[x] \in
                                 Range(_rule_extract_companies(fn_args.a[p].title, <<>>))

\* C25: each of the first min(len, max_items) items of the list enrich_items
\* returns has a summary of exactly 3 sentences, an empty string being no
\* sentence, whatever the batch call did.
C25_EnrichThreeSentences ==
    EnrichReturned =>
        \A p \in 1..EnrichN :
            /\ Len(fn_result[p].summary_3_sentences) = 3
            /\ \A k \in 1..3 : Strip(fn_result[p].summary_3_sentences[k]) # <<>>

\* a response that holds the first index with five names, not the second,
\* and an index that is no item's: one summary is the LLM's, one the fallback
C25_Witness ==
    /\ EnrichReturned /\ gemini_key
    /\ Len(fn_args.a) = 2 /\ fn_args.b.max_items = 2
    /\ DOMAIN fn_args.b.outcome.mapping = {0, 2}
    /\ Len(fn_args.b.outcome.mapping[0].companies) > 3
    /\ HasLlmSummary(1) /\ ~HasLlmSummary(2)
    /\ fn_result[1].summary_3_sentences # fn_result[2].summary_3_sentences
    /\ Len(fn_result[1].companies) = 3

\* ------------------------------------------------------------------------
\* dedupe_by_llm_semantic
\* ------------------------------------------------------------------------
AtSemanticDedupe == entry = "naver" /\ pc = "dedupe"

\* the step ends the iteration for out[di] without keeping it
DropsCurrent == di' = di + 1 /\ deduped' = deduped

KeepsCurrent == di' = di + 1 /\ deduped' = Append(deduped, out[di])

\* the step of the function without a key leaves an item of out out
DropsWithoutKey == KeyMissing /\ pc' = "score" /\ Len(deduped') < Len(out)

\* a drop needs a decision that says duplicate, with a rank
DropNeedsDecision ==
    (DropsWithoutKey \/ (~KeyMissing /\ DropsCurrent)) =>
        /\ decision'.got /\ decision'.is_duplicate /\ decision'.has_rank
        /\ llmCalls' = llmCalls + 1

\* with the key: one iteration of the loop, or one failed attempt of it
ConservativeIteration ==
    (~KeyMissing /\ di <= Len(out)) =>
        /\ DropsCurrent \/ KeepsCurrent \/ (di' = di /\ deduped' = deduped)
        /\ IF ~NeedsLlm THEN KeepsCurrent /\ llmCalls' = llmCalls
           ELSE IF ~decision'.got
           THEN /\ llmCalls' = llmCalls + 1
                /\ IF attempt < LLM_DEDUPE_RETRIES
                   THEN di' = di /\ deduped' = deduped /\ attempt' = attempt + 1
                   ELSE KeepsCurrent
           ELSE IF decision'.is_duplicate /\ decision'.has_rank THEN DropsCurrent
           ELSE KeepsCurrent

\* without the key: what is left out is within 0.92 of a kept title
TitleDropsOnly ==
    (KeyMissing /\ pc' = "score") =>
        /\ llmCalls' = llmCalls
        /\ \A p \in 1..Len(out) :
               \/ out[p] \in Range(deduped')
               \/ \E k \in 1..Len(deduped') :
                      IsDup(_title_similarity(out[p].title, deduped'[k].title), NoKeyThreshold)

RECURSIVE IsSubsequence(_, _)
IsSubsequence(s, t) ==
    IF s = <<>> THEN TRUE
    ELSE IF t = <<>> THEN FALSE
    ELSE IF Head(s) = Head(t) THEN IsSubsequence(Tail(s), Tail(t))
    ELSE IsSubsequence(s, Tail(t))

\* the kept items are items of out, in input order, the first one first
KeptInInputOrder ==
    (entry = "naver" /\ pc \in {"dedupe", "score", "select", "done"}) =>
        /\ IsSubsequence(deduped, out)
        /\ (pc # "dedupe" /\ out # <<>>) => (deduped # <<>> /\ deduped[1] = out[1])

\* C26: in dedupe_by_llm_semantic an item is dropped only when an LLM
\* decision was obtained and says is_duplicate with a non-null
\* duplicate_of_rank; the first item, every item below the fast gate (no LLM
\* call is made for it) and every item whose LLM call failed on all attempts
\* are kept, in input order.
C26_DropOnlyOnDecision ==
    /\ []KeptInInputOrder
    /\ [][AtSemanticDedupe => (DropNeedsDecision /\ ConservativeIteration)]_vars

\* C26 (as amended): with GEMINI_API_KEY the loop drops an item only on a
\* decision that says is_duplicate with a rank and keeps the first item,
\* the items below the fast gate (without a call) and the items whose call
\* failed on all attempts; without the key the function drops, with no LLM
\* decision, every item within 0.92 of a kept title.  Input order is kept.
C26_SemanticDedupeConservative ==
    /\ []KeptInInputOrder
    /\ [][AtSemanticDedupe =>
            /\ ~KeyMissing => DropNeedsDecision
            /\ ConservativeIteration
            /\ TitleDropsOnly]_vars

\* the third item was dropped on a decision after failed attempts, the
\* second was kept below the fast gate
C26_Witness ==
    /\ AtSemanticDedupe /\ ~KeyMissing
    /\ Len(out) = 3 /\ di > Len(out)
    /\ deduped = Prefix(out, 2)
    /\ ~PassesFastGate(out[2].title, Prefix(out, 1))
    /\ decision.got /\ decision.is_duplicate /\ decision.has_rank
    /\ llmCalls >= 2

\* without the key an item was left out, and no decision was asked for
C26_WitnessNoKey ==
    /\ entry = "naver" /\ pc = "score" /\ KeyMissing
    /\ Len(deduped) < Len(out) /\ llmCalls = 0

\* ------------------------------------------------------------------------
\* score_importance_by_llm
\* ------------------------------------------------------------------------
\* one score per item, each in [0, 100]: while the chunks are scored, and
\* in what is returned
ScoresAligned ==
    (entry = "naver" /\ (pc \in {"select", "done"} \/ (pc = "score" /\ ~KeyMissing))) =>
        /\ Len(scores) = Len(deduped)
        /\ \A p \in 1..Len(scores) : 0 <= scores[p] /\ scores[p] <= 100

\* a chunk is being scored
AtChunk == entry = "naver" /\ pc = "score" /\ ~KeyMissing /\ chunk_start < Len(deduped)

\* the step touches the scores of the current chunk only: a failed attempt
\* with a retry left touches none, the last failed attempt gives the chunk
\* the heuristic's scores, an answer gives the scores it holds
ChunkIsolated ==
    AtChunk =>
        /\ \A p \in 1..Len(scores) : (p - 1) \notin ChunkIdxs => scores'[p] = scores[p]
        /\ Len(scores') = Len(scores)
        /\ IF chunk_start' = chunk_start THEN scores' = scores
           ELSE IF mapping'.ok
           THEN \A i \in ChunkIdxs \cap DOMAIN mapping'.scores :
                    scores'[i + 1] = mapping'.scores[i]
           ELSE \A i \in ChunkIdxs :
                    scores'[i + 1] = heuristic_importance_score(deduped[i + 1].title)

\* without the key: the heuristic's score at every position
HeuristicAligned ==
    (entry = "naver" /\ pc = "score" /\ KeyMissing) =>
        /\ Len(scores') = Len(deduped)
        /\ \A p \in 1..Len(deduped) :
               scores'[p] = heuristic_importance_score(deduped[p].title)

\* C27: score_importance_by_llm returns exactly one score in [0, 100] per
\* input item at the item's own position, and when the LLM call for one
\* chunk fails after its retries only the items of that chunk receive
\* heuristic scores while the scores of every other chunk are the ones
\* returned by the LLM for them.
C27_ImportanceAligned == []ScoresAligned /\ [][ChunkIsolated /\ HeuristicAligned]_vars

\* the second chunk has failed on all attempts: its item has the heuristic's
\* score, the first chunk keeps the scores the LLM returned
C27_Witness ==
    /\ entry = "naver" /\ pc = "score" /\ ~KeyMissing
    /\ Len(deduped) = ChunkSize + 1 /\ chunk_start = 2 * ChunkSize
    /\ ~mapping.ok /\ attempt = 0
    /\ \A p \in 1..ChunkSize :
           scores[p] = 90 /\ scores[p] # heuristic_importance_score(deduped[p].title)
    /\ scores[ChunkSize + 1] = heuristic_importance_score(deduped[ChunkSize + 1].title)

\* ------------------------------------------------------------------------
\* collect_naver_last24h: the paging
\* ------------------------------------------------------------------------
\* the page the next request is answered with
NextPage ==
    PageOf(feed, start,
           IF PageSize < max_fetch - Len(out) THEN PageSize ELSE max_fetch - Len(out))

\* an entry of the page has a parsable date before the cutoff
PageHasOlder == \E i \in 1..Len(NextPage) : NextPage[i].pub = "old"

\* at most MaxPages requests, at most max_fetch items, ranks 0, 1, ..., n-1
PagingBounded ==
    entry = "naver" =>
        /\ requests <= MaxPages
        /\ Len(out) <= max_fetch
        /\ \A p \in 1..Len(out) : out[p].rank = p - 1
        /\ pc = "fetch" => (start <= MaxStart /\ Len(out) < max_fetch)

\* a request that is answered: an empty page ends the loop and adds
\* nothing; a page with an older entry ends the loop after every entry of
\* it was examined (each in-window entry with a link is in seen_links);
\* any other page is followed by the next start
PagingStep ==
    (entry = "naver" /\ pc = "fetch" /\ pc' # "raised") =>
        /\ requests' = requests + 1
        /\ NextPage = <<>> => (pc' = "dedupe" /\ out' = out)
        /\ PageHasOlder =>
               /\ pc' = "dedupe"
               /\ \A i \in 1..Len(NextPage) :
                      (NextPage[i].pub = "fresh" /\ NextPage[i].origin # NoUrl) =>
                          NextPage[i].origin \in seen_links'
        /\ pc' = "fetch" => (start' = start + PageSize /\ NextPage # <<>> /\ ~PageHasOlder)
        /\ Len(out') >= Len(out) /\ Prefix(out', Len(out)) = out

\* C28: collect_naver_last24h issues at most 10 page requests, returns at
\* most max_fetch items whose rank values are 0, 1, ..., n-1 in output
\* order, stops on an empty page, and with sort=date requests no further
\* page after a page in which an entry older than the cutoff was observed
\* (while still examining every entry of that page).
C28_PaginationBounded == []PagingBounded /\ [][PagingStep]_vars

\* the last page the loop bound allows was requested and the list is still
\* short of max_fetch
C28_Witness ==
    /\ entry = "naver" /\ pc = "dedupe" /\ error = "none"
    /\ requests = MaxPages /\ start > MaxStart
    /\ out # <<>> /\ Len(out) < max_fetch

\* the loop ended on a page with an older entry, whose later entry was kept
C28_WitnessOlder ==
    /\ entry = "naver" /\ pc = "dedupe" /\ error = "none"
    /\ requests = 1 /\ start = 1 /\ Len(feed) > PageSize
    /\ feed[1].pub = "old" /\ Len(out) = 1 /\ out[1].link = feed[2].origin

\* ------------------------------------------------------------------------
\* dedupe_items: related_links
\* ------------------------------------------------------------------------
DedupeItemsReturned == Returned /\ callee = "dedupe_items"

\* the representatives kept before input i that its title meets the
\* threshold with
MeetsThreshold(i) ==
    {k \in Reps : k < i /\ IsDup(title_similarity(raw_items[i].title, raw_items[k].title),
                                  sim_threshold)}

\* C29: after any call of dedupe_items every kept representative has at
\* most 2 related links, they are pairwise distinct, none equals the
\* representative's own link, none is empty, and each is the link of an
\* input item that was merged into that representative (a merged item is
\* attached to the first kept representative that meets the threshold).
C29_RelatedLinks ==
    DedupeItemsReturned =>
        /\ \A j \in 1..Len(kept) :
               LET rl == kept[j].related_links
               IN  /\ Len(rl) <= 2
                   /\ \A x, y \in 1..Len(rl) : x # y => rl[x] # rl[y]
                   /\ \A x \in 1..Len(rl) : rl[x] # kept[j].link /\ rl[x] # NoUrl
                   /\ rl # <<>> =>
                          Range(rl) \subseteq
                              {normalize_url(raw_items[i].link) :
                                   i \in {i \in Inputs : <<i, keptIdx[j]>> \in merges}}
        /\ \A p \in merges : MeetsThreshold(p[1]) # {} /\ p[2] = MinOf(MeetsThreshold(p[1]))

\* four inputs were merged into one representative: it has two related
\* links, and inputs with its own link, with a link already there or with
\* a third link added none
C29_Witness ==
    /\ DedupeItemsReturned
    /\ \E j \in 1..Len(kept) :
           /\ Len(kept[j].related_links) = 2
           /\ Cardinality(GroupOf(keptIdx[j])) >= 4
           /\ \E i \in GroupOf(keptIdx[j]) \ {keptIdx[j]} :
                  normalize_url(raw_items[i].link) \notin Range(kept[j].related_links)

\* ------------------------------------------------------------------------
\* The master store
\* ------------------------------------------------------------------------
AtStore == entry = "util" /\ fn_args.fn = "upsert_master"

Uids(rows) == {rows[p].uid : p \in 1..Len(rows)}

BatchUids(items) == {_uid_from_item(items[p]) : p \in 1..Len(items)}

\* the last item of the batch with the uid
LastWith(items, uid) ==
    items[MaxOf({p \in 1..Len(items) : _uid_from_item(items[p]) = uid})]

RowOf(rows, uid) == rows[CHOOSE p \in 1..Len(rows) : rows[p].uid = uid]

\* one row per uid
OneRowPerUid ==
    AtStore => \A p, q \in 1..Len(fn_result) : p # q => fn_result[p].uid # fn_result[q].uid

\* the call fn_args' on a file: the rows of the batch's uids are those of
\* the last item with the uid, every other row is as it was, no other row
\* is there
UpsertedInto(before, after, items, Row(_)) ==
    /\ Uids(after) = Uids(before) \cup BatchUids(items)
    /\ \A u \in BatchUids(items) : RowOf(after, u) = Row(LastWith(items, u))
    /\ \A u \in Uids(before) \ BatchUids(items) : RowOf(after, u) = RowOf(before, u)

\* a call with the batch of the call before it changes nothing
UpsertStep ==
    AtStore =>
        /\ fn_args'.a = fn_args.a
        /\ IF fn_args.a = "csv"
           THEN UpsertedInto(fn_result, fn_result', fn_args'.b, csv_row)
           ELSE UpsertedInto(fn_result, fn_result', fn_args'.b, json_row)
        /\ (pc = "returned" /\ fn_args'.b = fn_args.b) => fn_result' = fn_result

\* C30: after any sequence of upsert_master_csv / upsert_master_json calls
\* the store holds exactly one row per uid (sha1 of the link), that row
\* carries the values of the most recent item upserted with that link, rows
\* of links not in the current batch are unchanged, and upserting the same
\* batch twice leaves the store equal to upserting it once.
C30_MasterUpsert == []OneRowPerUid /\ [][UpsertStep]_vars

\* a batch of two items with one uid went into a csv file that holds
\* another row: the row of the uid is the second item's
C30_Witness ==
    /\ AtStore /\ fn_args.a = "csv"
    /\ Len(fn_args.b) = 2
    /\ fn_args.b[1].link # fn_args.b[2].link
    /\ BatchUids(fn_args.b) = {<<"u", "1">>}
    /\ Len(fn_result) = 2
    /\ RowOf(fn_result, <<"u", "1">>) = csv_row(fn_args.b[2])

====
